---------------------------- MODULE Spec2Model ----------------------------
(***************************************************************************)
(* Model of the SoapBoxDerbyCar firmware: the main control loop (Run), the *)
(* autonomous supervisor (AutonomousRoutine / ExitAutonomous), the         *)
(* steering and brake speed controllers, the hall-sensor interrupt         *)
(* handlers and the data log cursor.                                       *)
(*                                                                         *)
(* Two execution contexts exist: the main loop, whose position is pc, and  *)
(* the two hall-sensor interrupt handlers, which may run between any two   *)
(* main-loop steps.  The target is an 8-bit AVR (Mega2560): unsigned int   *)
(* is 16 bits wide and a 16-bit volatile is read and written one byte at   *)
(* a time, so the main loop's accesses to the wheel counters are two       *)
(* steps each.                                                             *)
(***************************************************************************)
EXTENDS Integers, Naturals, Sequences, FiniteSets, TLC

\* ------------------------------------------------------------------------
\* Program constants (SoapBoxDerbyCar.hpp)
\* ------------------------------------------------------------------------
AUTO_TURN_LEFT_SPEED == -80
AUTO_TURN_RIGHT_SPEED == 80
AUTO_HALL_SENSOR_LAUNCH_COUNT == 3
AUTO_HALL_SENSOR_COUNT_MAX_DIFF == 2
AUTO_MAX_LENGTH_MS == 300000
MIN_OUTPUT_PERCENTAGE == 10
RELEASE_BRAKE_PERCENTAGE == 25
APPLY_BRAKE_PERCENTAGE == -40
POTENTIOMETER_MAX_JITTER_VALUE == 5
MAX_DATA_LOG_ENTRIES == 240
DATA_LOG_ENTRY_INTERVAL_MS == 500
DATA_LOG_OVERFLOW_ALLOWED == TRUE
POTENTIOMETER_MAX_VALUE == 1024
\* WHEEL_CIRCUMFERENCE_INCHES / NUM_MAGNETS_PER_WHEEL (3.17...), in whole inches
WHEEL_LENGTH_PER_MAGNET_INCHES == 3
\* offsetof(NonVolatileCarData, ...) on the target (int: 2 bytes, bool: 1)
HEADER_OFFSET == 0
INCARNATION_OFFSET == 4
SAVED_BY_AUTO_OFFSET == 6
DATA_LOG_OVERFLOWED_OFFSET == 7
DATA_LOG_INDEX_OFFSET == 8
CAR_DATA_SIZE == 10
\* NON_VOLATILE_CAR_DATA_HEADER = "SBDC", as character codes
NON_VOLATILE_CAR_DATA_HEADER == << 83, 66, 68, 67 >>
\* the value of an erased EEPROM byte (0xFF)
ERASED_BYTE == 255
\* sizeof(nullptr_t) on the target
SIZEOF_NULLPTR == 2
OFF == 0
\* UpdateSpeedControllers locals
FULL_RIGHT_INPUT == 1986
FULL_LEFT_INPUT == 1000
TRUE_NEUTRAL_INPUT == 1490
\* ReadControllerInput local
SWITCH_THRESHHOLD_VALUE == 1350
\* PwmSpeedController::SetSpeed locals
MAX_VALUE == 100
MIN_VALUE == -100
PWM_SCALE_FACTOR == 5
PWM_BASE_VALUE == 1500
\* SendCarSerialData
NUM_FIELDS_TO_TRANSMIT == 10
SERIAL_DATA_TRANSMIT_INTERVAL_MS == 1000

\* Widths of the target's integer types.
UIntBits == 16
ByteBits == 8
UIntMod == 2 ^ UIntBits
ByteMod == 2 ^ ByteBits

\* ------------------------------------------------------------------------
\* Bounds of the model (not program constants)
\* ------------------------------------------------------------------------
\* Single hall pulses are enumerated while the low byte of a counter is
\* below MaxCount (and right before a byte or word boundary).
MaxCount == 4
\* The millisecond clock advances at most MaxTicks times.
MaxTicks == 2
\* With the clock advancing by half log intervals, LogData accepts at most
\* MaxAppends entries: more than m_DataLog holds.
MaxAppends == 242
\* The board is powered up at most MaxBoots times.
MaxBoots == 3

\* Counter values the pulse bursts jump to: the values of the drift
\* scenario, the last value before the low byte carries, and the last
\* values before the 16-bit counter wraps.
BurstMarks == {6, 10, ByteMod - 1, UIntMod - 2}
\* Amounts by which the clock advances between two reads of it.
TickSteps == {(AUTO_MAX_LENGTH_MS \div 2) - 1, AUTO_MAX_LENGTH_MS \div 2}
\* Values of the millisecond clock at the end of construction: zero, and
\* less than two clock advances before the 32-bit wrap.
ClockStarts == { <<0, 0>>, <<UIntMod - 3, 0>> }
\* Characters typed at the serial console: the four log commands.
ConsoleInputs == {"c", "e", "r", "w"}
\* The log commands of the console, and the operation each one calls.
ConsoleCommands ==
    [c \in {"c", "e", "r", "w"} |->
        CASE c = "c" -> "ClearDataLog"
          [] c = "e" -> "EraseEeprom"
          [] c = "r" -> "RestoreLogFromEeprom"
          [] c = "w" -> "WriteLogToEeprom"]
\* Raw potentiometer readings (analogRead).
PotReadings == {495, 500, 505, 900}
\* How far beyond a calibrated extreme a disturbed reading lies.
DisturbedOffsets == {POTENTIOMETER_MAX_JITTER_VALUE, POTENTIOMETER_MAX_JITTER_VALUE + 1}
\* Pulse widths read on the yaw channel (pulseIn): 0 is "no data".
YawInputs == {0, 1000, 1436, 1441, 1544, 1545}
\* Pulse widths read on the brake and master-enable channels.
SwitchInputs == {0, 1000, 1500}
\* Values handed to SetSteeringSpeedControllerValue by a direct caller.
SteerCommands == {-80, -10, 0, 5, 11}

\* ------------------------------------------------------------------------
\* State
\* ------------------------------------------------------------------------
VARIABLES
    pc,                                 \* position of the main context
    sub,                                \* step inside a two-byte access
    rd,                                 \* counter value seen by the first byte load
    ledState,                           \* local of ProcessAssert: TRUE is HIGH
    debugLeds,                          \* level last written to the debug LEDs: TRUE is HIGH
    leftRead, rightRead,                \* operands loaded from the wheel counters
    m_LeftHallCount, m_RightHallCount,  \* volatile unsigned int, ISR-written
    m_LeftWheelDistanceInches, m_RightWheelDistanceInches,  \* ISR-written
    m_bIsAutonomousExecuting,
    autonomousStartTimeMs,              \* local of AutonomousRoutine
    m_LeftSteeringLimitSwitchValue, m_RightSteeringLimitSwitchValue,
    m_BrakeReleaseLimitSwitchValue, m_BrakeApplyLimitSwitchValue,
    m_FrontAxlePotentiometerValue, m_LastGoodPotValue,
    m_FrontAxlePotMaxLeftValue, m_FrontAxlePotMaxRightValue,
    m_FrontAxlePotCenterValue, m_bCalibrationComplete,
    m_CurrentSteeringValue, m_SteeringDirection,
    steeringPwm,                        \* microseconds written to the steering controller
    brakePwm,                           \* microseconds written to the brake controller
    m_bBrakeApplied, m_bApplyingBrake, m_bReleasingBrake,
    m_bMasterEnable, m_bBrakeSwitch,
    m_DataLogIndex, m_bDataLogOverflowed,
    lastTimeStamp,                      \* static local of LogData
    m_DataLog,                          \* the RAM data log: slot -> entry
    m_Incarnation, m_bSavedByAuto,      \* rest of m_NonVolatileCarData
    overflowAllowed,                    \* the build's DATA_LOG_OVERFLOW_ALLOWED
    eepromCarData,                      \* EEPROM bytes 0..9, the stored NonVolatileCarData
    eepromLog,                          \* EEPROM from DATA_LOG_EEPROM_OFFSET: slot -> entry
    serialInput,                        \* character waiting at the serial console, or "none"
    \* the inputs of the board
    clock,                              \* millis(): unsigned long
    autonomousSwitchPin,                \* digitalRead(AUTONOMOUS_SWITCH_PIN) == 1
    leftLimitPin, rightLimitPin,        \* steering limit switch inputs
    brakeReleasePin, brakeApplyPin,     \* brake limit switch inputs
    potPin,                             \* analogRead(FRONT_AXLE_POTENTIOMETER_PIN)
    yawChannel, brakeChannel, enableChannel,  \* pulse widths sent by the controller
    \* history variables (observations the properties speak about)
    ticks,                              \* number of clock advances so far
    elapsedMs,                          \* true milliseconds since autonomousStartTimeMs was taken
    lastSwitchRead,                     \* last value returned by IsAutonomousSwitchSet
    lastSteerRequest,                   \* argument of the last steering command
    lastOp,                             \* operation performed by the last step
    phaseLog,                           \* phases entered in the current run, in order
    offSeenSinceExit,                   \* switch read off since ExitAutonomous last began
    appends,                            \* entries LogData has accepted since construction
    eepromWrites,                       \* EEPROM.write calls made by the last manual cycle
    writtenLog,                         \* RAM log state at the last WriteLogToEeprom, if still stored
    boots,                              \* constructions so far
    leftPulses, rightPulses,            \* pulses handled since the running reset of the counter began
    returnTripped                       \* left limit switch seen asserted in the return phase of the calibration

ctlVars == <<pc, sub, rd, ledState, debugLeds>>
readVars == <<leftRead, rightRead>>
countVars == <<m_LeftHallCount, m_RightHallCount, m_LeftWheelDistanceInches,
               m_RightWheelDistanceInches, leftPulses, rightPulses>>
autoVars == <<m_bIsAutonomousExecuting, autonomousStartTimeMs, elapsedMs>>
limitVars == <<m_LeftSteeringLimitSwitchValue, m_RightSteeringLimitSwitchValue,
               m_BrakeReleaseLimitSwitchValue, m_BrakeApplyLimitSwitchValue>>
potVars == <<m_FrontAxlePotentiometerValue, m_LastGoodPotValue>>
calVars == <<m_FrontAxlePotMaxLeftValue, m_FrontAxlePotMaxRightValue,
             m_FrontAxlePotCenterValue, m_bCalibrationComplete, returnTripped>>
steerVars == <<m_CurrentSteeringValue, m_SteeringDirection, steeringPwm, lastSteerRequest>>
brakeVars == <<brakePwm, m_bBrakeApplied, m_bApplyingBrake, m_bReleasingBrake>>
inputVars == <<m_bMasterEnable, m_bBrakeSwitch>>
ramLogVars == <<m_DataLogIndex, m_bDataLogOverflowed, m_DataLog>>
eepromVars == <<eepromCarData, eepromLog, eepromWrites, writtenLog>>
storeVars == <<m_Incarnation, m_bSavedByAuto, overflowAllowed, eepromVars, boots>>
logVars == <<ramLogVars, lastTimeStamp, appends, storeVars, serialInput>>
pinVars == <<autonomousSwitchPin, leftLimitPin, rightLimitPin, brakeReleasePin,
             brakeApplyPin, potPin, yawChannel, brakeChannel, enableChannel>>
timeVars == <<clock, ticks>>
switchVars == <<lastSwitchRead, offSeenSinceExit>>
vars == <<ctlVars, readVars, countVars, autoVars, limitVars, potVars, calVars,
          steerVars, brakeVars, inputVars, logVars, pinVars, timeVars,
          switchVars, phaseLog, lastOp>>

\* ------------------------------------------------------------------------
\* Positions of the main context
\* ------------------------------------------------------------------------
\* The byte stores of ResetHallSensorCounts, in AutonomousRoutine and in
\* ExitAutonomous.
ResetSites == {"EnterResetLeft", "EnterResetRight", "ExitResetLeft", "ExitResetRight"}
\* The counter reads of the launch loop condition and of the drift rule.
LoadSites == {"LaunchLeft", "LaunchRight", "DriftLeft1", "DriftRight1", "DriftRight2", "DriftLeft2"}
\* The accesses among them that are to m_LeftHallCount.
LeftSites == {"EnterResetLeft", "ExitResetLeft", "LaunchLeft", "DriftLeft1", "DriftLeft2"}
\* Positions inside CalibrateSteeringPotentiometer.
CalibrationSites == {"CalLeft", "CalRightStart", "CalRight", "CalCenterStart", "CalCenter", "CalDone"}
\* Positions whose next statement reads millis().
ClockSites == {"Run", "ExecCheck", "ExecLog"}
\* Positions whose next statement reads the autonomous switch.
SwitchSites == {"Run", "AutoWait", "AutoCheck", "LaunchSwitch", "ExecSwitch", "ExitWait"}
\* Positions whose next statement reads the limit switches.
PinSites == {"Run", "ExecSwitch", "DriftTest1", "DriftTest2", "ExitAutonomous"} \cup CalibrationSites
\* Positions whose next statement reads the potentiometer.
PotSites == {"Run", "ExecSwitch", "DriftTest2"} \cup CalibrationSites
\* Positions whose next statement reads the controller.
ControllerSites == {"Run", "AutoWait"}

\* The phase of the autonomous supervisor the main context is in.
Phase ==
    IF pc \in {"EnterResetLeft", "EnterResetRight", "LaunchLeft", "LaunchRight", "LaunchSwitch",
                "ExecStart"}
    THEN "WaitingToLaunch"
    ELSE IF pc \in {"ExecCheck", "ExecSwitch", "DriftLeft1", "DriftRight1",
                    "DriftTest1", "DriftRight2", "DriftLeft2", "DriftTest2", "ExecLog"}
    THEN "Executing"
    ELSE IF pc \in {"ExitAutonomous", "ExitResetLeft", "ExitResetRight", "ExitWait"}
    THEN "Exiting"
    ELSE "Idle"

\* ------------------------------------------------------------------------
\* Arithmetic of the target
\* ------------------------------------------------------------------------
\* Truncating integer division of C (the quotient rounds toward zero).
CDiv(a, b) == IF a >= 0 THEN a \div b ELSE -((-a) \div b)

\* Low and high byte of a 16-bit value, and the value made of two bytes.
LowByte(v) == v % ByteMod
HighByte(v) == v \div ByteMod
MakeWord(lo, hi) == (hi * ByteMod) + lo

\* What a two-byte load of a volatile counter can return when the first
\* byte is loaded while the counter is `first' and the second while it is
\* `second': the build may load either byte first.
LoadedValues(first, second) ==
    { MakeWord(LowByte(first), HighByte(second)),
      MakeWord(LowByte(second), HighByte(first)) }

\* unsigned int + int on the target: the sum is an unsigned int.
UIntAdd(a, b) == (a + b) % UIntMod

\* An unsigned long is kept as its two 16-bit halves <<high, low>>, so
\* that arithmetic modulo 2^32 is computed half by half.
ULongOf(n) == <<(n \div UIntMod) % UIntMod, n % UIntMod>>
ULongAdd(a, n) ==
    LET low == a[2] + (n % UIntMod)
    IN  <<(a[1] + (n \div UIntMod) + (low \div UIntMod)) % UIntMod, low % UIntMod>>
ULongSub(a, b) ==
    LET low == a[2] - b[2]
    IN  <<(a[1] - b[1] - (IF low < 0 THEN 1 ELSE 0)) % UIntMod, low % UIntMod>>
\* a < n for an unsigned long a and a constant n below 2^31
ULongLess(a, n) == (a[1] < UIntMod \div 2) /\ ((a[1] * UIntMod) + a[2] < n)

\* static inline unsigned long CalcDeltaTimeMs(startTimeMs)
\*   { return (millis() - startTimeMs); }
\* (Variant: the difference kept in 16 bits.)
CalcDeltaTimeMs_Truncated(startTimeMs) == << 0, ULongSub(clock, startTimeMs)[2] >>

\* (Variant: a clock that has wrapped below the start counts as no time.)
CalcDeltaTimeMs_Saturating(startTimeMs) ==
    IF \/ clock[1] < startTimeMs[1]
       \/ (clock[1] = startTimeMs[1]) /\ (clock[2] < startTimeMs[2])
    THEN ULongOf(0)
    ELSE ULongSub(clock, startTimeMs)

CalcDeltaTimeMs(startTimeMs) == ULongSub(clock, startTimeMs)

\* ------------------------------------------------------------------------
\* PwmSpeedController::SetSpeed: the pulse width written to the controller
\* ------------------------------------------------------------------------
SetSpeed(value) ==
    LET clamped == IF value > MAX_VALUE THEN MAX_VALUE
                   ELSE IF value < MIN_VALUE THEN MIN_VALUE
                   ELSE value
    IN  (clamped * PWM_SCALE_FACTOR) + PWM_BASE_VALUE

\* The percentage a pulse width stands for (inverse of the scaling above).
PwmPercent(us) == CDiv(us - PWM_BASE_VALUE, PWM_SCALE_FACTOR)

\* ------------------------------------------------------------------------
\* Steering
\* ------------------------------------------------------------------------
\* SetSteeringDirection(value)
SetSteeringDirection(value) ==
    IF value > 0 THEN "RIGHT" ELSE IF value < 0 THEN "LEFT" ELSE "NONE"

\* The limit switch interlock of SetSteeringSpeedControllerValue: the value
\* that is commanded for a requested value and the two switch readings.
SteeringInterlock(value, left, right) ==
    IF (value < 0) /\ (left = 1) THEN OFF
    ELSE IF (value > 0) /\ (right = 1) THEN OFF
    ELSE value

\* ReadLimitSwitches: all four switch inputs are read and stored.
ReadLimitSwitches ==
    /\ m_LeftSteeringLimitSwitchValue' = leftLimitPin
    /\ m_RightSteeringLimitSwitchValue' = rightLimitPin
    /\ m_BrakeReleaseLimitSwitchValue' = brakeReleasePin
    /\ m_BrakeApplyLimitSwitchValue' = brakeApplyPin

\* (Variant: the call decides on the readings stored by an earlier read.)
SteeringSwitchesUsed_Stale == <<m_LeftSteeringLimitSwitchValue, m_RightSteeringLimitSwitchValue>>

\* The switch readings SetSteeringSpeedControllerValue decides on: it
\* re-reads the switches first, so they are the readings just stored.
SteeringSwitchesUsed == <<m_LeftSteeringLimitSwitchValue', m_RightSteeringLimitSwitchValue'>>

\* SetSteeringSpeedControllerValue(value)
SetSteeringSpeedControllerValue(value) ==
    /\ ReadLimitSwitches
    /\ LET realized == SteeringInterlock(value, SteeringSwitchesUsed[1], SteeringSwitchesUsed[2])
       IN  /\ steeringPwm' = SetSpeed(realized)
           /\ m_SteeringDirection' = SetSteeringDirection(realized)
           /\ m_CurrentSteeringValue' = realized
    /\ lastSteerRequest' = value

\* ------------------------------------------------------------------------
\* Brake (speed controller driven, confirmed by limit switches)
\* ------------------------------------------------------------------------
\* ApplyBrake(false), deciding on the apply limit switch value applyLimit.
ApplyBrake(applyLimit) ==
    /\ brakePwm' = IF applyLimit # 1 THEN SetSpeed(APPLY_BRAKE_PERCENTAGE) ELSE SetSpeed(OFF)
    /\ m_bApplyingBrake' = (applyLimit # 1)
    /\ m_bBrakeApplied' = TRUE
    /\ UNCHANGED m_bReleasingBrake

\* ReleaseBrake(false), deciding on the release limit switch value releaseLimit.
ReleaseBrake(releaseLimit) ==
    /\ brakePwm' = IF releaseLimit # 1 THEN SetSpeed(RELEASE_BRAKE_PERCENTAGE) ELSE SetSpeed(OFF)
    /\ m_bReleasingBrake' = (releaseLimit # 1)
    /\ m_bBrakeApplied' = FALSE
    /\ UNCHANGED m_bApplyingBrake

\* ------------------------------------------------------------------------
\* Potentiometer
\* ------------------------------------------------------------------------
\* (Variant: the reading is stored whatever it is.)
PotAfterRead_Unfiltered(raw, lastGood) == <<raw, IF m_bCalibrationComplete THEN raw ELSE lastGood>>

\* ReadPotentiometers: the stored value and the last good value after a
\* raw reading, as a pair.
PotAfterRead(raw, lastGood) ==
    IF m_bCalibrationComplete
    THEN IF \/ raw > (m_FrontAxlePotMaxLeftValue + POTENTIOMETER_MAX_JITTER_VALUE)
            \/ raw < (m_FrontAxlePotMaxRightValue - POTENTIOMETER_MAX_JITTER_VALUE)
         THEN <<lastGood, lastGood>>
         ELSE <<raw, raw>>
    ELSE <<raw, lastGood>>

ReadPotentiometers ==
    /\ m_FrontAxlePotentiometerValue' = PotAfterRead(potPin, m_LastGoodPotValue)[1]
    /\ m_LastGoodPotValue' = PotAfterRead(potPin, m_LastGoodPotValue)[2]

\* The value CenterSteeringByPotentiometer requests for a (filtered)
\* potentiometer value.
CenterCommand(pot) ==
    IF pot >= (m_FrontAxlePotCenterValue + POTENTIOMETER_MAX_JITTER_VALUE)
    THEN AUTO_TURN_RIGHT_SPEED
    ELSE IF pot <= (m_FrontAxlePotCenterValue - POTENTIOMETER_MAX_JITTER_VALUE)
    THEN AUTO_TURN_LEFT_SPEED
    ELSE OFF

\* CenterSteeringByPotentiometer
CenterSteeringByPotentiometer ==
    /\ ReadPotentiometers
    /\ SetSteeringSpeedControllerValue(CenterCommand(m_FrontAxlePotentiometerValue'))

\* ------------------------------------------------------------------------
\* Data log
\* ------------------------------------------------------------------------
\* The slots of m_DataLog.
LogSlots == 0 .. (MAX_DATA_LOG_ENTRIES - 1)

\* A 32-bit field holding the int v, as its two 16-bit halves.
Int32Of(v) == IF v >= 0 THEN ULongOf(v) ELSE << UIntMod - 1, v % UIntMod >>

\* A data log entry: <<m_TimeStampMs, m_FrontAxlePotentiometer>>, each a
\* 32-bit field.  (The two wheel distance fields are not modelled.)
DataLogEntry(timeStampMs, pot) == << timeStampMs, Int32Of(pot) >>

\* An entry of a log cleared by memset, and one read from erased EEPROM.
ZeroEntry == << ULongOf(0), ULongOf(0) >>
ErasedEntry ==
    LET half == MakeWord(ERASED_BYTE, ERASED_BYTE) IN << <<half, half>>, <<half, half>> >>

\* An array of MAX_DATA_LOG_ENTRIES entries is held as the entry that
\* filled it last (memset, erase) and the slots stored since with another
\* entry: [fill |-> entry, held |-> slot -> entry].
FilledLog(entry) == [fill |-> entry, held |-> [slot \in {} |-> entry]]
EntryAt(log, slot) == IF slot \in DOMAIN log.held THEN log.held[slot] ELSE log.fill
PutEntry(log, index, entry) ==
    LET slots == IF entry = log.fill
                 THEN (DOMAIN log.held) \ {index}
                 ELSE (DOMAIN log.held) \cup {index}
    IN  [fill |-> log.fill,
         held |-> [slot \in slots |-> IF slot = index THEN entry ELSE log.held[slot]]]

\* (Variant: the overflow check is left out.)
LogAccepted_IgnoreOverflow ==
    ~ULongLess(CalcDeltaTimeMs(lastTimeStamp), DATA_LOG_ENTRY_INTERVAL_MS)

\* Whether LogData gets past its interval check and its overflow check.
LogAccepted ==
    /\ ~ULongLess(CalcDeltaTimeMs(lastTimeStamp), DATA_LOG_ENTRY_INTERVAL_MS)
    /\ (~m_bDataLogOverflowed \/ overflowAllowed)

\* (Variant: the entry is written one slot further.)
StoreEntry_Next(log, index, entry) ==
    IF index \in LogSlots THEN PutEntry(log, (index + 1) % MAX_DATA_LOG_ENTRIES, entry) ELSE log

\* m_DataLog after "m_DataLog[m_DataLogIndex] = entry": a cursor outside
\* the array addresses no slot of it.
StoreEntry(log, index, entry) ==
    IF index \in LogSlots THEN PutEntry(log, index, entry) ELSE log

\* (Variant: the cursor wraps without the overflow being flagged.)
AdvanceCursor_NoFlag(index, overflowed) ==
    IF index + 1 = MAX_DATA_LOG_ENTRIES
    THEN << 0, overflowed >>
    ELSE << index + 1, overflowed >>

\* "m_DataLogIndex++; if (m_DataLogIndex == MAX_DATA_LOG_ENTRIES) {...}":
\* the cursor and the overflow flag after an accepted entry.
AdvanceCursor(index, overflowed) ==
    IF index + 1 = MAX_DATA_LOG_ENTRIES
    THEN << 0, TRUE >>
    ELSE << index + 1, overflowed >>

\* LogData(entryTimeStampMs): the entry is written at the cursor, then the
\* cursor advances.  The result is <<cursor, overflowed, log, lastTimeStamp,
\* appends>>; pot is m_FrontAxlePotentiometerValue as the call finds it.
LoggedState(entryTimeStampMs, pot) ==
    IF LogAccepted
    THEN << AdvanceCursor(m_DataLogIndex, m_bDataLogOverflowed)[1],
            AdvanceCursor(m_DataLogIndex, m_bDataLogOverflowed)[2],
            StoreEntry(m_DataLog, m_DataLogIndex,
                       DataLogEntry(entryTimeStampMs, pot)),
            clock,
            appends + 1 >>
    ELSE << m_DataLogIndex, m_bDataLogOverflowed, m_DataLog, lastTimeStamp, appends >>

LogData(entryTimeStampMs) ==
    /\ m_DataLogIndex' = LoggedState(entryTimeStampMs, m_FrontAxlePotentiometerValue)[1]
    /\ m_bDataLogOverflowed' = LoggedState(entryTimeStampMs, m_FrontAxlePotentiometerValue)[2]
    /\ m_DataLog' = LoggedState(entryTimeStampMs, m_FrontAxlePotentiometerValue)[3]
    /\ lastTimeStamp' = LoggedState(entryTimeStampMs, m_FrontAxlePotentiometerValue)[4]
    /\ appends' = LoggedState(entryTimeStampMs, m_FrontAxlePotentiometerValue)[5]

\* ------------------------------------------------------------------------
\* EEPROM: the stored car data and the stored data log
\* ------------------------------------------------------------------------
\* An int and a bool as the bytes GenericWriteToEeprom copies, and back as
\* GenericReadFromEeprom fills them.  A bool filled with a byte other than
\* 0 and 1 has no defined value.
IntBytes(v) == << LowByte(v % UIntMod), HighByte(v % UIntMod) >>
\* (Variant: the two bytes are read as an unsigned int.)
IntOfBytes_Unsigned(lo, hi) == MakeWord(lo, hi)

IntOfBytes(lo, hi) ==
    LET u == MakeWord(lo, hi) IN IF u >= UIntMod \div 2 THEN u - UIntMod ELSE u
BoolByte(b) == IF b THEN 1 ELSE 0
BoolsOfByte(byte) == IF byte = 0 THEN {FALSE} ELSE IF byte = 1 THEN {TRUE} ELSE BOOLEAN

\* The bytes of a data log entry, in storage order.
HalfBytes(h) == << LowByte(h), HighByte(h) >>
EntryBytes(e) == HalfBytes(e[1][2]) \o HalfBytes(e[1][1]) \o HalfBytes(e[2][2]) \o HalfBytes(e[2][1])

\* A data log entry as GenericReadFromEeprom fills it from its bytes, and
\* the log read back from the stored one.
EntryOfBytes(b) ==
    << << MakeWord(b[3], b[4]), MakeWord(b[1], b[2]) >>,
       << MakeWord(b[7], b[8]), MakeWord(b[5], b[6]) >> >>
LogReadBack(storedLog) ==
    [fill |-> EntryOfBytes(EntryBytes(storedLog.fill)),
     held |-> [slot \in DOMAIN storedLog.held |-> EntryOfBytes(EntryBytes(storedLog.held[slot]))]]

\* The stored fields GetEepromCarData reads.
StoredHeader(car) == [i \in 1 .. Len(NON_VOLATILE_CAR_DATA_HEADER) |-> car[HEADER_OFFSET + i]]
StoredIncarnation(car) == IntOfBytes(car[INCARNATION_OFFSET + 1], car[INCARNATION_OFFSET + 2])
StoredIndex(car) == IntOfBytes(car[DATA_LOG_INDEX_OFFSET + 1], car[DATA_LOG_INDEX_OFFSET + 2])
StoredOverflowed(car) == BoolsOfByte(car[DATA_LOG_OVERFLOWED_OFFSET + 1])

\* The bytes WriteLogToEeprom stores in the car data.
CarDataImage(incarnation, savedByAuto, overflowed, index) ==
    [i \in 1 .. CAR_DATA_SIZE |->
        LET offset == i - 1
        IN  IF offset < INCARNATION_OFFSET
            THEN NON_VOLATILE_CAR_DATA_HEADER[(offset - HEADER_OFFSET) + 1]
            ELSE IF offset < SAVED_BY_AUTO_OFFSET
            THEN IntBytes(incarnation)[(offset - INCARNATION_OFFSET) + 1]
            ELSE IF offset = SAVED_BY_AUTO_OFFSET THEN BoolByte(savedByAuto)
            ELSE IF offset = DATA_LOG_OVERFLOWED_OFFSET THEN BoolByte(overflowed)
            ELSE IntBytes(index)[(offset - DATA_LOG_INDEX_OFFSET) + 1]]

\* (Variant: every byte is written.)
WriteIssued_Always(storedByte, dataByte) == TRUE

\* "if (EEPROM.read(offset + i) != *pData)": whether the byte is written.
WriteIssued(storedByte, dataByte) == storedByte # dataByte

\* The EEPROM.write calls made when car data bytes, or the log, are
\* stored over the present contents.
CarDataWrites(stored, data) ==
    Cardinality({ i \in 1 .. CAR_DATA_SIZE : WriteIssued(stored[i], data[i]) })
\* (Slots that hold the fill entry in both logs give the same count each.)
EntryWrites(storedEntry, entry) ==
    Cardinality({ i \in 1 .. Len(EntryBytes(entry)) :
                     WriteIssued(EntryBytes(storedEntry)[i], EntryBytes(entry)[i]) })
LogWrites(storedLog, log) ==
    LET held == (DOMAIN storedLog.held) \cup (DOMAIN log.held)
    IN  Cardinality({ cell \in held \X (1 .. Len(EntryBytes(ZeroEntry))) :
                         WriteIssued(EntryBytes(EntryAt(storedLog, cell[1]))[cell[2]],
                                     EntryBytes(EntryAt(log, cell[1]))[cell[2]]) })
        + ((MAX_DATA_LOG_ENTRIES - Cardinality(held))
              * EntryWrites(storedLog.fill, log.fill))

\* EraseEeprom: GenericEraseEeprom is instantiated with a reference bound
\* to a null pointer; its test "&rDataToErase == nullptr" has no defined
\* outcome, so either all of EEPROM is erased or sizeof(nullptr_t) bytes.
ErasedCarData(car, size) ==
    [i \in 1 .. CAR_DATA_SIZE |-> IF i <= size THEN ERASED_BYTE ELSE car[i]]
ErasedLog == FilledLog(ErasedEntry)
EraseOutcomes ==
    { << ErasedCarData(eepromCarData, CAR_DATA_SIZE), ErasedLog >>,
      << ErasedCarData(eepromCarData, SIZEOF_NULLPTR), eepromLog >> }

\* ClearDataLog(RAM_LOG): memset of m_DataLog.
ClearedLog == FilledLog(ZeroEntry)

\* The four console commands that touch the log, applied to the RAM log
\* state <<index, overflowed, log>>.
ClearDataLogRam(index, overflowed, log) ==
    /\ m_DataLog' = ClearedLog
    /\ m_DataLogIndex' = index
    /\ m_bDataLogOverflowed' = overflowed
    /\ eepromWrites' = 0
    /\ UNCHANGED <<m_bSavedByAuto, eepromCarData, eepromLog, writtenLog>>

\* (Variant: the erase starts at offset 0 and takes all of EEPROM.)
ClearDataLogEeprom_FromStart(index, overflowed, log) ==
    /\ eepromLog' = ErasedLog
    /\ eepromCarData' = ErasedCarData(eepromCarData, CAR_DATA_SIZE)
    /\ eepromWrites' = LogWrites(eepromLog, ErasedLog)
                       + CarDataWrites(eepromCarData, ErasedCarData(eepromCarData, CAR_DATA_SIZE))
    /\ writtenLog' = << >>
    /\ m_DataLog' = log
    /\ m_DataLogIndex' = index
    /\ m_bDataLogOverflowed' = overflowed
    /\ UNCHANGED m_bSavedByAuto

\* ClearDataLog(EEPROM_LOG): GenericEraseEeprom(m_DataLog,
\* DATA_LOG_EEPROM_OFFSET) is handed a real object, so sizeof(m_DataLog)
\* bytes are erased from the offset of the stored log on.
ClearDataLogEeprom(index, overflowed, log) ==
    /\ eepromLog' = ErasedLog
    /\ eepromWrites' = LogWrites(eepromLog, ErasedLog)
    /\ writtenLog' = << >>
    /\ m_DataLog' = log
    /\ m_DataLogIndex' = index
    /\ m_bDataLogOverflowed' = overflowed
    /\ UNCHANGED <<m_bSavedByAuto, eepromCarData>>

EraseEeprom(index, overflowed, log) ==
    /\ \E outcome \in EraseOutcomes :
          /\ eepromCarData' = outcome[1]
          /\ eepromLog' = outcome[2]
          /\ eepromWrites' = CarDataWrites(eepromCarData, outcome[1]) + LogWrites(eepromLog, outcome[2])
    /\ writtenLog' = << >>
    /\ m_DataLog' = log
    /\ m_DataLogIndex' = index
    /\ m_bDataLogOverflowed' = overflowed
    /\ UNCHANGED m_bSavedByAuto

RestoreLogFromEeprom(index, overflowed, log) ==
    /\ m_DataLog' = LogReadBack(eepromLog)
    /\ m_bDataLogOverflowed' \in StoredOverflowed(eepromCarData)
    /\ m_DataLogIndex' = StoredIndex(eepromCarData)
    /\ eepromWrites' = 0
    /\ UNCHANGED <<m_bSavedByAuto, eepromCarData, eepromLog, writtenLog>>

WriteLogToEeprom(bFromAuto, index, overflowed, log) ==
    /\ eepromLog' = log
    /\ eepromCarData' = CarDataImage(m_Incarnation, bFromAuto, overflowed, index)
    /\ eepromWrites' = LogWrites(eepromLog, log)
                       + CarDataWrites(eepromCarData,
                                       CarDataImage(m_Incarnation, bFromAuto, overflowed, index))
    /\ m_bSavedByAuto' = bFromAuto
    /\ writtenLog' = << log, index, overflowed >>
    /\ m_DataLog' = log
    /\ m_DataLogIndex' = index
    /\ m_bDataLogOverflowed' = overflowed

\* ReadSerialInput: the waiting character, if any, is read and its command
\* carried out.
ReadSerialInput(index, overflowed, log) ==
    /\ serialInput' = "none"
    /\ CASE serialInput = "c" -> ClearDataLogRam(index, overflowed, log)
         [] serialInput = "e" -> EraseEeprom(index, overflowed, log)
         [] serialInput = "r" -> RestoreLogFromEeprom(index, overflowed, log)
         [] serialInput = "w" -> WriteLogToEeprom(FALSE, index, overflowed, log)
         [] OTHER -> /\ m_DataLog' = log
                     /\ m_DataLogIndex' = index
                     /\ m_bDataLogOverflowed' = overflowed
                     /\ eepromWrites' = 0
                     /\ UNCHANGED <<m_bSavedByAuto, eepromCarData, eepromLog, writtenLog>>

\* ------------------------------------------------------------------------
\* Initial state: the state at the end of the constructor, with the
\* steering calibrated and centred and the wheels at rest.
\* ------------------------------------------------------------------------
\* Calibrations the constructor may have ended with: <<left, right>> extremes.
Calibrations == { <<800, 200>> }

\* (Variant: the half distance is added to the left extreme.)
AUTO_CENTERING_CALIBRATION_LEFT_SPEED == -50
AUTO_CENTERING_CALIBRATION_RIGHT_SPEED == 50
AUTO_CENTERING_CALIBRATION_CENTER_SPEED == -50
RECALIBRATE_INPUT_CHANNEL_THRESHOLD == 1100

CalibrationCenter_FromLeft(left, right) == left + CDiv(left - right, 2)

\* center = right + (left - right) / 2
CalibrationCenter(left, right) == right + CDiv(left - right, 2)

Constructed(overflowAllowedInBuild, calibrations) ==
    /\ pc = "Run"
    /\ sub = 0
    /\ rd = 0
    /\ ledState = TRUE
    /\ debugLeds = FALSE
    /\ leftRead = 0
    /\ rightRead = 0
    /\ m_LeftHallCount = 0
    /\ m_RightHallCount = 0
    /\ m_LeftWheelDistanceInches = 0
    /\ m_RightWheelDistanceInches = 0
    /\ leftPulses = 0
    /\ rightPulses = 0
    /\ m_bIsAutonomousExecuting = FALSE
    /\ autonomousStartTimeMs = ULongOf(0)
    /\ m_LeftSteeringLimitSwitchValue = 0
    /\ m_RightSteeringLimitSwitchValue = 0
    /\ m_BrakeReleaseLimitSwitchValue = 0
    /\ m_BrakeApplyLimitSwitchValue = 0
    /\ \E cal \in calibrations :
          /\ m_FrontAxlePotMaxLeftValue = cal[1]
          /\ m_FrontAxlePotMaxRightValue = cal[2]
          /\ m_FrontAxlePotCenterValue = CalibrationCenter(cal[1], cal[2])
          /\ m_FrontAxlePotentiometerValue = CalibrationCenter(cal[1], cal[2])
          /\ m_LastGoodPotValue = CalibrationCenter(cal[1], cal[2])
    /\ m_bCalibrationComplete = TRUE
    /\ returnTripped = FALSE
    /\ m_CurrentSteeringValue = OFF
    /\ m_SteeringDirection = "NONE"
    /\ steeringPwm = SetSpeed(OFF)
    /\ brakePwm = SetSpeed(OFF)
    /\ m_bBrakeApplied = FALSE
    /\ m_bApplyingBrake = FALSE
    /\ m_bReleasingBrake = FALSE
    /\ m_bMasterEnable = FALSE
    /\ m_bBrakeSwitch = FALSE
    /\ m_DataLogIndex = 0
    /\ m_bDataLogOverflowed = FALSE
    /\ lastTimeStamp = ULongOf(0)
    /\ m_DataLog = ClearedLog
    /\ m_bSavedByAuto = FALSE
    /\ overflowAllowed = overflowAllowedInBuild
    /\ eepromCarData = [i \in 1 .. CAR_DATA_SIZE |-> ERASED_BYTE]
    /\ eepromLog = ErasedLog
    /\ m_Incarnation = StoredIncarnation(eepromCarData) + 1
    /\ serialInput = "none"
    /\ boots = 1
    /\ appends = 0
    /\ eepromWrites = 0
    /\ writtenLog = << >>
    /\ clock \in ClockStarts
    /\ autonomousSwitchPin = FALSE
    /\ leftLimitPin = 0
    /\ rightLimitPin = 0
    /\ brakeReleasePin = 0
    /\ brakeApplyPin = 0
    /\ potPin = m_FrontAxlePotCenterValue
    /\ yawChannel = 0
    /\ brakeChannel = 0
    /\ enableChannel = 0
    /\ ticks = 0
    /\ elapsedMs = 0
    /\ lastSwitchRead = FALSE
    /\ lastSteerRequest = OFF
    /\ lastOp = "Construct"
    /\ phaseLog = << >>
    /\ offSeenSinceExit = TRUE

\* The build as configured, and the builds of either configuration of
\* DATA_LOG_OVERFLOW_ALLOWED.
Init == Constructed(DATA_LOG_OVERFLOW_ALLOWED, Calibrations)
InitEitherBuild == \E allowed \in BOOLEAN : Constructed(allowed, Calibrations)

\* The build as configured, the calibration having read any two values
\* analogRead can return at the two limit switches, the clock far from
\* its wrap.
AnalogReadings == 0 .. (POTENTIOMETER_MAX_VALUE - 1)
InitAnyCalibration ==
    /\ clock = ULongOf(0)
    /\ Constructed(DATA_LOG_OVERFLOW_ALLOWED, AnalogReadings \X AnalogReadings)

\* ------------------------------------------------------------------------
\* Interrupt context: the hall sensor handlers
\* ------------------------------------------------------------------------
\* Interrupts are enabled throughout.  A pulse that arrives between two
\* accesses of the main context to the counters has the same effect as one
\* that arrives right before the later access, so pulses are delivered at
\* the counter accesses.  Single pulses are enumerated while the low byte
\* of the counter is below MaxCount, and right before a byte or word
\* boundary of the counter.
PulseEnumerated(c) ==
    /\ pc \in (LoadSites \cup ResetSites)
    /\ \/ LowByte(c) < MaxCount
       \/ LowByte(c) >= ByteMod - 2

\* "++count * WHEEL_LENGTH_PER_MAGNET_INCHES": the distance the handlers
\* store, the length per magnet taken in whole inches.
WheelDistance(count) == count * WHEEL_LENGTH_PER_MAGNET_INCHES

\* ++count on a volatile unsigned int.
IncrementHallSensorCount(count) == (count + 1) % UIntMod

\* The counter after n consecutive runs of a handler's rising-edge branch.
CountAfterPulses(count, n) == (count + n) % UIntMod

\* History: ResetHallSensorCounts is running and has begun to clear the
\* left (right) counter.
LeftResetBegun == (pc \in ResetSites) /\ ((pc \notin LeftSites) \/ (sub # 0))
RightResetBegun == (pc \in ResetSites) /\ (pc \notin LeftSites) /\ (sub # 0)

\* History: the pulses counted since a reset began, n more having been
\* handled; nothing is counted when no reset is running.
PulsesCounted(begun, pulses, n) == IF begun THEN (pulses + n) % UIntMod ELSE 0

\* Everything the interrupt handlers leave alone.
mainVars == <<ctlVars, readVars, autoVars, limitVars, potVars, calVars,
              steerVars, brakeVars, inputVars, logVars, pinVars, timeVars,
              switchVars, phaseLog>>

\* LeftHallSensorInterruptHandler on a rising edge: IncrementLeftHallSensorCount.
LeftHallSensorInterruptHandler ==
    /\ PulseEnumerated(m_LeftHallCount)
    /\ m_LeftHallCount' = IncrementHallSensorCount(m_LeftHallCount)
    /\ m_LeftWheelDistanceInches' = WheelDistance(m_LeftHallCount')
    /\ leftPulses' = PulsesCounted(LeftResetBegun, leftPulses, 1)
    /\ rightPulses' = PulsesCounted(RightResetBegun, rightPulses, 0)
    /\ lastOp' = "LeftHallPulse"
    /\ UNCHANGED <<m_RightHallCount, m_RightWheelDistanceInches, mainVars>>

\* RightHallSensorInterruptHandler on a rising edge: IncrementRightHallSensorCount.
RightHallSensorInterruptHandler ==
    /\ PulseEnumerated(m_RightHallCount)
    /\ m_RightHallCount' = IncrementHallSensorCount(m_RightHallCount)
    /\ m_RightWheelDistanceInches' = WheelDistance(m_RightHallCount')
    /\ leftPulses' = PulsesCounted(LeftResetBegun, leftPulses, 0)
    /\ rightPulses' = PulsesCounted(RightResetBegun, rightPulses, 1)
    /\ lastOp' = "RightHallPulse"
    /\ UNCHANGED <<m_LeftHallCount, m_LeftWheelDistanceInches, mainVars>>

\* The car rolls while the launch loop is about to read the counters: the
\* left handler runs several times in a row, with no main-loop step in
\* between, up to one of the marked counter values.
LeftHallBurst ==
    \E mark \in BurstMarks :
        /\ pc = "LaunchLeft"
        /\ sub = 0
        /\ m_LeftHallCount = 0
        /\ m_LeftHallCount' = CountAfterPulses(m_LeftHallCount, mark - m_LeftHallCount)
        /\ m_LeftWheelDistanceInches' = WheelDistance(m_LeftHallCount')
        /\ leftPulses' = 0
        /\ rightPulses' = 0
        /\ lastOp' = "LeftHallPulse"
        /\ UNCHANGED <<m_RightHallCount, m_RightWheelDistanceInches, mainVars>>

\* The same for the right handler.
RightHallBurst ==
    \E mark \in BurstMarks :
        /\ pc = "LaunchLeft"
        /\ sub = 0
        /\ m_RightHallCount = 0
        /\ m_RightHallCount' = CountAfterPulses(m_RightHallCount, mark - m_RightHallCount)
        /\ m_RightWheelDistanceInches' = WheelDistance(m_RightHallCount')
        /\ leftPulses' = 0
        /\ rightPulses' = 0
        /\ lastOp' = "RightHallPulse"
        /\ UNCHANGED <<m_LeftHallCount, m_LeftWheelDistanceInches, mainVars>>

\* ------------------------------------------------------------------------
\* Environment: the clock, the switches, the potentiometer, the controller.
\* A change of an input between two reads of it is made right before the
\* later read.
\* ------------------------------------------------------------------------
\* Everything of the program a change of the environment leaves alone.
programVars == <<ctlVars, readVars, countVars, limitVars, potVars, calVars,
                 steerVars, brakeVars, inputVars, logVars, switchVars, phaseLog,
                 m_bIsAutonomousExecuting, autonomousStartTimeMs>>

\* millis() advances.
Tick ==
    \E d \in TickSteps :
        /\ pc \in ClockSites
        /\ ticks < MaxTicks
        /\ ticks' = ticks + 1
        /\ clock' = ULongAdd(clock, d)
        /\ elapsedMs' = IF m_bIsAutonomousExecuting THEN elapsedMs + d ELSE elapsedMs
        /\ lastOp' = "Tick"
        /\ UNCHANGED <<programVars, pinVars>>

\* millis() advances by half a log interval between two manual cycles.
LogTick ==
    /\ pc = "Run"
    /\ appends < MaxAppends
    /\ ULongLess(CalcDeltaTimeMs(lastTimeStamp), DATA_LOG_ENTRY_INTERVAL_MS)
    /\ clock' = ULongAdd(clock, DATA_LOG_ENTRY_INTERVAL_MS \div 2)
    /\ lastOp' = "LogTick"
    /\ UNCHANGED <<programVars, pinVars, ticks, elapsedMs>>

\* millis() advances by a log interval between two manual cycles.
LogIntervalPasses ==
    /\ pc = "Run"
    /\ ticks < MaxTicks
    /\ ticks' = ticks + 1
    /\ clock' = ULongAdd(clock, DATA_LOG_ENTRY_INTERVAL_MS)
    /\ lastOp' = "LogIntervalPasses"
    /\ UNCHANGED <<programVars, pinVars, elapsedMs>>

\* A character is typed at the serial console.
SerialInputArrives ==
    \E c \in ConsoleInputs :
        /\ pc = "Run"
        /\ serialInput = "none"
        /\ serialInput' = c
        /\ lastOp' = "SerialInputArrives"
        /\ UNCHANGED <<ctlVars, readVars, countVars, autoVars, limitVars, potVars, calVars,
                       steerVars, brakeVars, inputVars, ramLogVars, lastTimeStamp, appends,
                       storeVars, pinVars, timeVars, switchVars, phaseLog>>

\* A character is typed at the serial console once the log has overflowed.
OverflowedInputArrives ==
    /\ m_bDataLogOverflowed
    /\ SerialInputArrives

\* The board is switched off and on again: the constructor runs on the
\* EEPROM contents the last run left.  The inputs stay as they are.
Restarted(position) ==
    /\ pc = "Run"
    /\ pc' = position
    /\ boots < MaxBoots
    /\ boots' = boots + 1
    /\ m_Incarnation' = IntOfBytes(IntBytes(StoredIncarnation(eepromCarData) + 1)[1],
                                   IntBytes(StoredIncarnation(eepromCarData) + 1)[2])
    /\ m_DataLog' = ClearedLog
    /\ m_DataLogIndex' = 0
    /\ m_bDataLogOverflowed' = FALSE
    /\ m_bSavedByAuto' = FALSE
    /\ lastTimeStamp' = ULongOf(0)
    /\ serialInput' = "none"
    /\ clock' = ULongOf(0)
    /\ sub' = 0
    /\ rd' = 0
    /\ ledState' = TRUE
    /\ debugLeds' = FALSE
    /\ leftRead' = 0
    /\ rightRead' = 0
    /\ m_LeftHallCount' = 0
    /\ m_RightHallCount' = 0
    /\ m_LeftWheelDistanceInches' = 0
    /\ m_RightWheelDistanceInches' = 0
    /\ leftPulses' = 0
    /\ rightPulses' = 0
    /\ m_bIsAutonomousExecuting' = FALSE
    /\ autonomousStartTimeMs' = ULongOf(0)
    /\ m_LeftSteeringLimitSwitchValue' = 0
    /\ m_RightSteeringLimitSwitchValue' = 0
    /\ m_BrakeReleaseLimitSwitchValue' = 0
    /\ m_BrakeApplyLimitSwitchValue' = 0
    /\ m_FrontAxlePotentiometerValue' = m_FrontAxlePotCenterValue
    /\ m_LastGoodPotValue' = m_FrontAxlePotCenterValue
    /\ m_CurrentSteeringValue' = OFF
    /\ m_SteeringDirection' = "NONE"
    /\ steeringPwm' = SetSpeed(OFF)
    /\ brakePwm' = SetSpeed(OFF)
    /\ m_bBrakeApplied' = FALSE
    /\ m_bApplyingBrake' = FALSE
    /\ m_bReleasingBrake' = FALSE
    /\ m_bMasterEnable' = FALSE
    /\ m_bBrakeSwitch' = FALSE
    /\ lastSteerRequest' = OFF
    /\ lastSwitchRead' = FALSE
    /\ offSeenSinceExit' = TRUE
    /\ phaseLog' = << >>
    /\ elapsedMs' = 0
    /\ appends' = 0
    /\ eepromWrites' = 0
    /\ lastOp' = "PowerCycle"
    /\ UNCHANGED <<calVars, overflowAllowed, eepromCarData, eepromLog, writtenLog,
                   pinVars, ticks>>

\* The board is switched off and on again and the car is constructed.
PowerCycle == Restarted("Run")

\* The board is switched off and on again and has not yet reached
\* CreateSingletonInstance: m_pSoapBoxDerbyCar is null.  (The fields
\* already show the values the constructor will give them.)
RestartBeforeCreate == Restarted("NotCreated")

\* CreateSingletonInstance: from here on m_pSoapBoxDerbyCar is not null.
CreateSingletonInstance ==
    /\ pc = "NotCreated"
    /\ pc' = "Run"
    /\ lastOp' = "CreateSingletonInstance"
    /\ UNCHANGED <<sub, rd, ledState, debugLeds, readVars, countVars, autoVars, limitVars,
                   potVars, calVars, steerVars, brakeVars, inputVars, logVars, pinVars,
                   timeVars, switchVars, phaseLog>>

\* The autonomous switch is flipped.
AutonomousSwitchChange ==
    /\ pc \in SwitchSites
    /\ autonomousSwitchPin' = ~autonomousSwitchPin
    /\ lastOp' = "AutonomousSwitchChange"
    /\ UNCHANGED <<programVars, timeVars, elapsedMs, leftLimitPin, rightLimitPin,
                   brakeReleasePin, brakeApplyPin, potPin, yawChannel, brakeChannel,
                   enableChannel>>

\* A steering limit switch changes.
LimitSwitchChange ==
    \E l \in {0, 1}, r \in {0, 1} :
        /\ pc \in PinSites
        /\ <<l, r>> # <<leftLimitPin, rightLimitPin>>
        /\ leftLimitPin' = l
        /\ rightLimitPin' = r
        /\ lastOp' = "LimitSwitchChange"
        /\ UNCHANGED <<programVars, timeVars, elapsedMs, autonomousSwitchPin,
                       brakeReleasePin, brakeApplyPin, potPin, yawChannel, brakeChannel,
                       enableChannel>>

\* A brake limit switch changes.
BrakeLimitSwitchChange ==
    \E release \in {0, 1}, apply \in {0, 1} :
        /\ pc \in PinSites \cup {"ExitWait", "ApplyWait", "ReleaseWait"}
        /\ <<release, apply>> # <<brakeReleasePin, brakeApplyPin>>
        /\ brakeReleasePin' = release
        /\ brakeApplyPin' = apply
        /\ lastOp' = "BrakeLimitSwitchChange"
        /\ UNCHANGED <<programVars, timeVars, elapsedMs, autonomousSwitchPin,
                       leftLimitPin, rightLimitPin, potPin, yawChannel, brakeChannel,
                       enableChannel>>

\* The front axle turns (or the reading is disturbed).
PotentiometerChange ==
    \E raw \in PotReadings :
        /\ pc \in PotSites
        /\ raw # potPin
        /\ potPin' = raw
        /\ lastOp' = "PotentiometerChange"
        /\ UNCHANGED <<programVars, timeVars, elapsedMs, autonomousSwitchPin,
                       leftLimitPin, rightLimitPin, brakeReleasePin, brakeApplyPin,
                       yawChannel, brakeChannel, enableChannel>>

\* The reading is disturbed: it is just inside or just outside what the
\* filter of ReadPotentiometers accepts.
PotentiometerDisturbed ==
    \E raw \in { m_FrontAxlePotMaxLeftValue + d : d \in DisturbedOffsets }
                \cup { m_FrontAxlePotMaxRightValue - d : d \in DisturbedOffsets } :
        /\ pc \in PotSites
        /\ raw # potPin
        /\ potPin' = raw
        /\ lastOp' = "PotentiometerDisturbed"
        /\ UNCHANGED <<programVars, timeVars, elapsedMs, autonomousSwitchPin,
                       leftLimitPin, rightLimitPin, brakeReleasePin, brakeApplyPin,
                       yawChannel, brakeChannel, enableChannel>>

\* The operator moves the steering stick.
YawChange ==
    \E yaw \in YawInputs :
        /\ pc \in ControllerSites
        /\ yaw # yawChannel
        /\ yawChannel' = yaw
        /\ lastOp' = "YawChange"
        /\ UNCHANGED <<programVars, timeVars, elapsedMs, autonomousSwitchPin,
                       leftLimitPin, rightLimitPin, brakeReleasePin, brakeApplyPin,
                       potPin, brakeChannel, enableChannel>>

\* The operator flips the brake switch of the controller.
BrakeSwitchChange ==
    \E width \in SwitchInputs :
        /\ pc \in ControllerSites
        /\ width # brakeChannel
        /\ brakeChannel' = width
        /\ lastOp' = "BrakeSwitchChange"
        /\ UNCHANGED <<programVars, timeVars, elapsedMs, autonomousSwitchPin,
                       leftLimitPin, rightLimitPin, brakeReleasePin, brakeApplyPin,
                       potPin, yawChannel, enableChannel>>

\* The operator flips the master enable switch of the controller.
MasterEnableChange ==
    \E width \in SwitchInputs :
        /\ pc \in ControllerSites
        /\ width # enableChannel
        /\ enableChannel' = width
        /\ lastOp' = "MasterEnableChange"
        /\ UNCHANGED <<programVars, timeVars, elapsedMs, autonomousSwitchPin,
                       leftLimitPin, rightLimitPin, brakeReleasePin, brakeApplyPin,
                       potPin, yawChannel, brakeChannel>>

\* ------------------------------------------------------------------------
\* Main context: inputs
\* ------------------------------------------------------------------------
\* IsAutonomousSwitchSet: the value returned is that of the pin.
IsAutonomousSwitchSet ==
    /\ lastSwitchRead' = autonomousSwitchPin
    /\ offSeenSinceExit' = (offSeenSinceExit \/ ~autonomousSwitchPin)

\* ReadControllerInput: the brake switch and the master enable follow the
\* pulse widths of their channels.  (The stored channel values are used
\* only in the cycle that read them, so the channels stand for them.)
ReadControllerInput ==
    /\ m_bBrakeSwitch' = ~(brakeChannel < SWITCH_THRESHHOLD_VALUE)
    /\ m_bMasterEnable' = ~(enableChannel < SWITCH_THRESHHOLD_VALUE)

\* IsControllerOn: some channel delivered a non-zero value.  (The
\* recalibration channel is taken to deliver nothing.)
IsControllerOn ==
    (yawChannel # 0) \/ (brakeChannel # 0) \/ (enableChannel # 0)

\* ------------------------------------------------------------------------
\* Main context: UpdateSpeedControllers (manual steering and brake)
\* ------------------------------------------------------------------------
\* steerOutputValue: the yaw pulse width normalised from true neutral and
\* scaled to a percentage, truncated toward zero.  (For pulse widths of
\* 1000..2000 the floating point computation of the source gives exactly
\* this integer.)
SteerOutputValue(yaw) ==
    LET scaled == yaw - TRUE_NEUTRAL_INPUT
    IN  IF scaled < 0 THEN CDiv(scaled * 100, TRUE_NEUTRAL_INPUT - FULL_LEFT_INPUT)
        ELSE IF scaled > 0 THEN CDiv(scaled * 100, FULL_RIGHT_INPUT - TRUE_NEUTRAL_INPUT)
        ELSE 0

\* (Variant: the dead zone test with strict comparisons.)
InDeadZone_Strict(value) ==
    (value < MIN_OUTPUT_PERCENTAGE) /\ (value > -MIN_OUTPUT_PERCENTAGE)

\* "Trim input to meet minimum requirements": the dead zone test.
InDeadZone(value) ==
    (value <= MIN_OUTPUT_PERCENTAGE) /\ (value >= -MIN_OUTPUT_PERCENTAGE)

\* The two limit switch checks of UpdateSpeedControllers, one after the other.
ManualInterlock(value, left, right) ==
    LET afterLeft == IF (value < 0) /\ (left = 1) THEN OFF ELSE value
    IN  IF (afterLeft > 0) /\ (right = 1) THEN OFF ELSE afterLeft

\* UpdateSpeedControllers.  The limit switches and the controller switches
\* are those stored by this cycle.
UpdateSpeedControllers ==
    IF yawChannel = 0
    THEN UNCHANGED <<steerVars, brakeVars>>
    ELSE /\ lastSteerRequest' = SteerOutputValue(yawChannel)
         /\ IF InDeadZone(SteerOutputValue(yawChannel))
            THEN /\ steeringPwm' = SetSpeed(OFF)
                 /\ UNCHANGED <<m_CurrentSteeringValue, m_SteeringDirection>>
            ELSE LET realized == ManualInterlock(SteerOutputValue(yawChannel),
                                                 m_LeftSteeringLimitSwitchValue',
                                                 m_RightSteeringLimitSwitchValue')
                 IN  /\ steeringPwm' = SetSpeed(realized)
                     /\ m_SteeringDirection' = SetSteeringDirection(realized)
                     /\ m_CurrentSteeringValue' = realized
         /\ IF m_bBrakeSwitch'
            THEN ReleaseBrake(m_BrakeReleaseLimitSwitchValue')
            ELSE ApplyBrake(m_BrakeApplyLimitSwitchValue')

\* ------------------------------------------------------------------------
\* Main context: Run
\* ------------------------------------------------------------------------
\* The steering limit pins are inputs too; the program writes none of them.
envVars == <<pinVars, timeVars>>

\* Run with the autonomous switch off: one manual control cycle.
RunManual ==
    /\ pc = "Run"
    /\ ~autonomousSwitchPin
    /\ IsAutonomousSwitchSet
    /\ ReadControllerInput
    /\ ReadLimitSwitches
    /\ ReadPotentiometers
    /\ IF IsControllerOn /\ m_bMasterEnable'
       THEN UpdateSpeedControllers
       ELSE UNCHANGED <<steerVars, brakeVars>>
    /\ lastTimeStamp' = LoggedState(clock, m_FrontAxlePotentiometerValue')[4]
    /\ appends' = LoggedState(clock, m_FrontAxlePotentiometerValue')[5]
    /\ ReadSerialInput(LoggedState(clock, m_FrontAxlePotentiometerValue')[1],
                       LoggedState(clock, m_FrontAxlePotentiometerValue')[2],
                       LoggedState(clock, m_FrontAxlePotentiometerValue')[3])
    /\ UNCHANGED <<m_Incarnation, overflowAllowed, boots>>
    /\ lastOp' = IF IsControllerOn /\ m_bMasterEnable' /\ (yawChannel # 0)
                 THEN "ManualSteering"
                 ELSE IF serialInput \in DOMAIN ConsoleCommands
                 THEN ConsoleCommands[serialInput]
                 ELSE "RunManual"
    /\ UNCHANGED <<ctlVars, readVars, countVars, autoVars, calVars, envVars, phaseLog>>

\* SendCarSerialData, past its interval check: the values packed into
\* serialData, one per "serialData[transmitDataIndex++] = ...".
BoolInt(b) == IF b THEN 1 ELSE 0
PackedSerialData ==
    << m_CurrentSteeringValue, BoolInt(m_bBrakeApplied), m_LeftHallCount, m_RightHallCount,
       m_LeftSteeringLimitSwitchValue, m_RightSteeringLimitSwitchValue,
       m_FrontAxlePotentiometerValue, BoolInt(m_bIsAutonomousExecuting) >>

\* "if (CalcDeltaTimeMs(lastTimeStamp) < SERIAL_DATA_TRANSMIT_INTERVAL_MS)
\* return;": the static lastTimeStamp of SendCarSerialData is written at
\* the end of a transmission only, and is 0 until one has completed.
TransmitIntervalElapsed ==
    ~ULongLess(CalcDeltaTimeMs(ULongOf(0)), SERIAL_DATA_TRANSMIT_INTERVAL_MS)

\* One manual control cycle with the request "pi" waiting on the data port
\* and the transmit interval elapsed: IsCarDataRequested is true and
\* SendCarSerialData packs its fields and checks
\* ASSERT(transmitDataIndex == NUM_FIELDS_TO_TRANSMIT); a failed ASSERT
\* enters ProcessAssert, otherwise the cycle goes on to ReadSerialInput.
RunManualCarDataRequested ==
    /\ pc = "Run"
    /\ ~autonomousSwitchPin
    /\ TransmitIntervalElapsed
    /\ IsAutonomousSwitchSet
    /\ ReadControllerInput
    /\ ReadLimitSwitches
    /\ ReadPotentiometers
    /\ IF IsControllerOn /\ m_bMasterEnable'
       THEN UpdateSpeedControllers
       ELSE UNCHANGED <<steerVars, brakeVars>>
    /\ lastTimeStamp' = LoggedState(clock, m_FrontAxlePotentiometerValue')[4]
    /\ appends' = LoggedState(clock, m_FrontAxlePotentiometerValue')[5]
    /\ UNCHANGED <<sub, rd, debugLeds, readVars, countVars, autoVars, calVars, envVars, phaseLog>>
    /\ IF Len(PackedSerialData') = NUM_FIELDS_TO_TRANSMIT
       THEN /\ ReadSerialInput(LoggedState(clock, m_FrontAxlePotentiometerValue')[1],
                               LoggedState(clock, m_FrontAxlePotentiometerValue')[2],
                               LoggedState(clock, m_FrontAxlePotentiometerValue')[3])
            /\ UNCHANGED <<pc, ledState>>
       ELSE /\ m_DataLogIndex' = LoggedState(clock, m_FrontAxlePotentiometerValue')[1]
            /\ m_bDataLogOverflowed' = LoggedState(clock, m_FrontAxlePotentiometerValue')[2]
            /\ m_DataLog' = LoggedState(clock, m_FrontAxlePotentiometerValue')[3]
            /\ pc' = "ProcessAssert"
            /\ ledState' = TRUE
            /\ UNCHANGED <<m_bSavedByAuto, eepromVars, serialInput>>
    /\ UNCHANGED <<m_Incarnation, overflowAllowed, boots>>
    /\ lastOp' = "SendCarSerialData"

\* Run with the autonomous switch on: the motors are disabled and the
\* wait for the master enable begins.
RunAutonomous ==
    /\ pc = "Run"
    /\ autonomousSwitchPin
    /\ IsAutonomousSwitchSet
    /\ SetSteeringSpeedControllerValue(OFF)
    /\ pc' = "AutoWait"
    /\ lastOp' = "RunAutonomous"
    /\ UNCHANGED <<sub, rd, ledState, debugLeds, readVars, countVars, autoVars, potVars, calVars,
                   brakeVars, inputVars, logVars, envVars, phaseLog>>

\* One pass of "while (!m_bMasterEnable)": the loop ends when the master
\* enable is set, or, after the controller was read, when the autonomous
\* switch is off.  (Recalibration is not requested.)
AutoWait ==
    /\ pc = "AutoWait"
    /\ IF m_bMasterEnable
       THEN /\ pc' = "AutoCheck"
            /\ UNCHANGED <<inputVars, switchVars>>
       ELSE /\ ReadControllerInput
            /\ IsAutonomousSwitchSet
            /\ pc' = IF autonomousSwitchPin THEN "AutoWait" ELSE "AutoCheck"
    /\ lastOp' = "AutoWait"
    /\ UNCHANGED <<sub, rd, ledState, debugLeds, readVars, countVars, autoVars, limitVars, potVars, calVars,
                   steerVars, brakeVars, logVars, envVars, phaseLog>>

\* "Make sure autonomous is still intended": AutonomousRoutine is entered
\* if the switch is still set, otherwise Run returns.
AutoCheck ==
    /\ pc = "AutoCheck"
    /\ IsAutonomousSwitchSet
    /\ IF autonomousSwitchPin
       THEN /\ pc' = "EnterResetLeft"
            /\ phaseLog' = << "WaitingToLaunch" >>
            /\ lastOp' = "AutonomousRoutine"
       ELSE /\ pc' = "Run"
            /\ phaseLog' = phaseLog
            /\ lastOp' = "AutoCancelled"
    /\ leftRead' = 0
    /\ rightRead' = 0
    /\ UNCHANGED <<sub, rd, ledState, debugLeds, countVars, autoVars, limitVars, potVars, calVars,
                   steerVars, brakeVars, inputVars, logVars, envVars>>

\* ------------------------------------------------------------------------
\* Main context: recalibration requested during the wait
\* ------------------------------------------------------------------------
\* Pulse widths the controller delivers on the recalibration channel.
RecalibrateInputs == {0, 1000, 1500}

\* IsRecalibrationRequested, for the pulse width read from the
\* recalibration channel.
IsRecalibrationRequested(channel) ==
    (channel # 0) /\ (channel < RECALIBRATE_INPUT_CHANNEL_THRESHOLD)

\* A pass of "while (!m_bMasterEnable)" in which the recalibration is
\* requested: CalibrateSteeringPotentiometer begins to move to the left
\* limit switch.
CalibrateStart ==
    /\ pc = "AutoWait"
    /\ ~m_bMasterEnable
    /\ ReadControllerInput
    /\ \E channel \in RecalibrateInputs : IsRecalibrationRequested(channel)
    /\ SetSteeringSpeedControllerValue(AUTO_CENTERING_CALIBRATION_LEFT_SPEED)
    /\ pc' = "CalLeft"
    /\ lastOp' = "Calibrating"
    /\ UNCHANGED <<sub, rd, ledState, debugLeds, readVars, countVars, autoVars, potVars, calVars,
                   brakeVars, logVars, envVars, switchVars, phaseLog>>

\* "while (m_LeftSteeringLimitSwitchValue != 1)": a pass of the loop, or
\* its end: motor off, the potentiometer is read and saved as the left
\* extreme.
CalLeft ==
    /\ pc = "CalLeft"
    /\ ReadPotentiometers
    /\ IF m_LeftSteeringLimitSwitchValue # 1
       THEN /\ ReadLimitSwitches
            /\ pc' = "CalLeft"
            /\ UNCHANGED <<steerVars, m_FrontAxlePotMaxLeftValue>>
       ELSE /\ SetSteeringSpeedControllerValue(OFF)
            /\ m_FrontAxlePotMaxLeftValue' = m_FrontAxlePotentiometerValue'
            /\ pc' = "CalRightStart"
    /\ lastOp' = "Calibrating"
    /\ UNCHANGED <<sub, rd, ledState, debugLeds, readVars, countVars, autoVars, m_FrontAxlePotMaxRightValue,
                   m_FrontAxlePotCenterValue, m_bCalibrationComplete, returnTripped,
                   brakeVars, inputVars, logVars, envVars, switchVars, phaseLog>>

\* "Move to the right limit switch".
CalRightStart ==
    /\ pc = "CalRightStart"
    /\ SetSteeringSpeedControllerValue(AUTO_CENTERING_CALIBRATION_RIGHT_SPEED)
    /\ pc' = "CalRight"
    /\ lastOp' = "Calibrating"
    /\ UNCHANGED <<sub, rd, ledState, debugLeds, readVars, countVars, autoVars, potVars, calVars,
                   brakeVars, inputVars, logVars, envVars, switchVars, phaseLog>>

\* "while (m_RightSteeringLimitSwitchValue != 1)": a pass of the loop, or
\* its end: motor off, the potentiometer is read and saved as the right
\* extreme, and the center is computed.
CalRight ==
    /\ pc = "CalRight"
    /\ ReadPotentiometers
    /\ IF m_RightSteeringLimitSwitchValue # 1
       THEN /\ ReadLimitSwitches
            /\ pc' = "CalRight"
            /\ UNCHANGED <<steerVars, m_FrontAxlePotMaxRightValue, m_FrontAxlePotCenterValue>>
       ELSE /\ SetSteeringSpeedControllerValue(OFF)
            /\ m_FrontAxlePotMaxRightValue' = m_FrontAxlePotentiometerValue'
            /\ m_FrontAxlePotCenterValue' =
                   CalibrationCenter(m_FrontAxlePotMaxLeftValue, m_FrontAxlePotentiometerValue')
            /\ pc' = "CalCenterStart"
    /\ lastOp' = "Calibrating"
    /\ UNCHANGED <<sub, rd, ledState, debugLeds, readVars, countVars, autoVars, m_FrontAxlePotMaxLeftValue,
                   m_bCalibrationComplete, returnTripped,
                   brakeVars, inputVars, logVars, envVars, switchVars, phaseLog>>

\* "Return to center": the motor is started toward the center.
CalCenterStart ==
    /\ pc = "CalCenterStart"
    /\ SetSteeringSpeedControllerValue(AUTO_CENTERING_CALIBRATION_CENTER_SPEED)
    /\ returnTripped' = (leftLimitPin = 1)
    /\ pc' = "CalCenter"
    /\ lastOp' = "Calibrating"
    /\ UNCHANGED <<sub, rd, ledState, debugLeds, readVars, countVars, autoVars, potVars,
                   m_FrontAxlePotMaxLeftValue, m_FrontAxlePotMaxRightValue,
                   m_FrontAxlePotCenterValue, m_bCalibrationComplete,
                   brakeVars, inputVars, logVars, envVars, switchVars, phaseLog>>

\* A pass of "do ... while (m_FrontAxlePotentiometerValue <
\* m_FrontAxlePotCenterValue)": only the potentiometer is read.
CalCenter ==
    /\ pc = "CalCenter"
    /\ ReadPotentiometers
    /\ returnTripped' = (returnTripped \/ (leftLimitPin = 1))
    /\ pc' = IF m_FrontAxlePotentiometerValue' < m_FrontAxlePotCenterValue
             THEN "CalCenter" ELSE "CalDone"
    /\ lastOp' = "Calibrating"
    /\ UNCHANGED <<sub, rd, ledState, debugLeds, readVars, countVars, autoVars, limitVars,
                   m_FrontAxlePotMaxLeftValue, m_FrontAxlePotMaxRightValue,
                   m_FrontAxlePotCenterValue, m_bCalibrationComplete, steerVars,
                   brakeVars, inputVars, logVars, envVars, switchVars, phaseLog>>

\* "Back to center, motor off": the center becomes the last good value,
\* the calibration is marked complete and the final position is read;
\* the wait loop then reads the autonomous switch.
CalDone ==
    /\ pc = "CalDone"
    /\ SetSteeringSpeedControllerValue(OFF)
    /\ returnTripped' = (returnTripped \/ (leftLimitPin = 1))
    /\ m_bCalibrationComplete' = TRUE
    /\ m_FrontAxlePotentiometerValue' = PotAfterRead(potPin, m_FrontAxlePotCenterValue)[1]
    /\ m_LastGoodPotValue' = PotAfterRead(potPin, m_FrontAxlePotCenterValue)[2]
    /\ IsAutonomousSwitchSet
    /\ pc' = IF autonomousSwitchPin THEN "AutoWait" ELSE "AutoCheck"
    /\ lastOp' = "Calibrated"
    /\ UNCHANGED <<sub, rd, ledState, debugLeds, readVars, countVars, autoVars,
                   m_FrontAxlePotMaxLeftValue, m_FrontAxlePotMaxRightValue,
                   m_FrontAxlePotCenterValue,
                   brakeVars, inputVars, logVars, envVars, phaseLog>>

\* ------------------------------------------------------------------------
\* Main context: two-byte accesses to the pulse counters
\* ------------------------------------------------------------------------
\* A counter with one of its bytes cleared by a byte store.
ClearLowByte(count) == MakeWord(0, HighByte(count))
ClearHighByte(count) == MakeWord(LowByte(count), 0)

\* The statement following ResetHallSensorCounts at each of its call sites.
AfterReset(site) ==
    CASE site = "EnterResetLeft"  -> "EnterResetRight"
      [] site = "EnterResetRight" -> "LaunchLeft"
      [] site = "ExitResetLeft"   -> "ExitResetRight"
      [] site = "ExitResetRight"  -> "ExitWait"

\* ResetHallSensorCounts: "m_LeftHallCount = 0; m_RightHallCount = 0;",
\* each assignment being two byte stores (sub = 1: the low byte is
\* cleared, sub = 2: the high byte is cleared).  ExitAutonomous clears
\* m_bIsAutonomousExecuting right after its reset; the start time, a local
\* of AutonomousRoutine, is not read again.
ResetHallSensorCounts ==
    /\ pc \in ResetSites
    /\ LET count == IF pc \in LeftSites THEN m_LeftHallCount ELSE m_RightHallCount
           stored == IF sub = 0
                     THEN { <<ClearLowByte(count), 1>>, <<ClearHighByte(count), 2>> }
                     ELSE IF sub = 1
                     THEN { <<ClearHighByte(count), 0>> }
                     ELSE { <<ClearLowByte(count), 0>> }
       IN  \E st \in stored :
              /\ IF pc \in LeftSites
                 THEN m_LeftHallCount' = st[1] /\ UNCHANGED m_RightHallCount
                 ELSE m_RightHallCount' = st[1] /\ UNCHANGED m_LeftHallCount
              /\ leftPulses' = IF (pc \in LeftSites) /\ (sub = 0) THEN 0 ELSE leftPulses
              /\ rightPulses' = IF (pc \notin LeftSites) /\ (sub = 0) THEN 0 ELSE rightPulses
              /\ sub' = st[2]
              /\ pc' = IF st[2] = 0 THEN AfterReset(pc) ELSE pc
    /\ IF (pc = "ExitResetRight") /\ (sub # 0)
       THEN /\ m_bIsAutonomousExecuting' = FALSE
            /\ elapsedMs' = 0
            /\ autonomousStartTimeMs' = ULongOf(0)
       ELSE UNCHANGED autoVars
    /\ lastOp' = "ResetHallSensorCounts"
    /\ UNCHANGED <<m_LeftWheelDistanceInches, m_RightWheelDistanceInches>>
    /\ UNCHANGED <<rd, ledState, debugLeds, readVars, limitVars, potVars, calVars, steerVars, brakeVars,
                   inputVars, logVars, envVars, switchVars, phaseLog>>

\* (Variant: the launch loop compares against the drift threshold.)
AfterLoad_DriftThreshold(site, v) ==
    CASE site = "LaunchLeft"  -> IF v < AUTO_HALL_SENSOR_COUNT_MAX_DIFF THEN "LaunchRight" ELSE "ExecStart"
      [] site = "LaunchRight" -> IF v < AUTO_HALL_SENSOR_COUNT_MAX_DIFF THEN "LaunchSwitch" ELSE "ExecStart"
      [] site = "DriftLeft1"  -> "DriftRight1"
      [] site = "DriftRight1" -> "DriftTest1"
      [] site = "DriftRight2" -> "DriftLeft2"
      [] site = "DriftLeft2"  -> "DriftTest2"

\* The statement reached once the counter read at a site has value v.
AfterLoad(site, v) ==
    CASE site = "LaunchLeft"  -> IF v < AUTO_HALL_SENSOR_LAUNCH_COUNT THEN "LaunchRight" ELSE "ExecStart"
      [] site = "LaunchRight" -> IF v < AUTO_HALL_SENSOR_LAUNCH_COUNT THEN "LaunchSwitch" ELSE "ExecStart"
      [] site = "DriftLeft1"  -> "DriftRight1"
      [] site = "DriftRight1" -> "DriftTest1"
      [] site = "DriftRight2" -> "DriftLeft2"
      [] site = "DriftLeft2"  -> "DriftTest2"

\* The first byte load of a counter read.
LoadFirstByte ==
    /\ pc \in LoadSites
    /\ sub = 0
    /\ rd' = IF pc \in LeftSites THEN m_LeftHallCount ELSE m_RightHallCount
    /\ sub' = 1
    /\ leftPulses' = 0
    /\ rightPulses' = 0
    /\ lastOp' = "LoadFirstByte"
    /\ UNCHANGED <<pc, ledState, debugLeds, readVars, m_LeftHallCount, m_RightHallCount,
                   m_LeftWheelDistanceInches, m_RightWheelDistanceInches, autoVars, limitVars, potVars, calVars, steerVars,
                   brakeVars, inputVars, logVars, envVars, switchVars, phaseLog>>

\* The second byte load: the value read combines one byte of the counter
\* as it was at the first load with the other byte as it is now.
LoadSecondByte ==
    /\ pc \in LoadSites
    /\ sub = 1
    /\ \E v \in LoadedValues(rd, IF pc \in LeftSites THEN m_LeftHallCount ELSE m_RightHallCount) :
          /\ IF pc \in LeftSites
             THEN leftRead' = v /\ UNCHANGED rightRead
             ELSE rightRead' = v /\ UNCHANGED leftRead
          /\ pc' = AfterLoad(pc, v)
    /\ sub' = 0
    /\ rd' = 0
    /\ lastOp' = "LoadSecondByte"
    /\ UNCHANGED <<ledState, debugLeds, countVars, autoVars, limitVars, potVars, calVars, steerVars, brakeVars,
                   inputVars, logVars, envVars, switchVars, phaseLog>>

\* ------------------------------------------------------------------------
\* Main context: AutonomousRoutine
\* ------------------------------------------------------------------------
\* (Variant: the launch loop does not watch the switch.)
LaunchSwitch_IgnoreCancel ==
    /\ pc = "LaunchSwitch"
    /\ IsAutonomousSwitchSet
    /\ pc' = "LaunchLeft"
    /\ lastOp' = "LaunchSwitch"
    /\ UNCHANGED <<sub, rd, ledState, debugLeds, readVars, countVars, autoVars, limitVars, potVars, calVars,
                   steerVars, brakeVars, inputVars, logVars, envVars, phaseLog>>

\* (Variant: the cancelled launch loop falls through instead of returning.)
LaunchSwitch_NoReturn ==
    /\ pc = "LaunchSwitch"
    /\ IsAutonomousSwitchSet
    /\ pc' = IF autonomousSwitchPin THEN "LaunchLeft" ELSE "ExecStart"
    /\ lastOp' = "LaunchSwitch"
    /\ UNCHANGED <<sub, rd, ledState, debugLeds, readVars, countVars, autoVars, limitVars, potVars, calVars,
                   steerVars, brakeVars, inputVars, logVars, envVars, phaseLog>>

\* The launch loop body: "Watch for autonomous to be cancelled".
LaunchSwitch ==
    /\ pc = "LaunchSwitch"
    /\ IsAutonomousSwitchSet
    /\ pc' = IF autonomousSwitchPin THEN "LaunchLeft" ELSE "ExitAutonomous"
    /\ lastOp' = "LaunchSwitch"
    /\ UNCHANGED <<sub, rd, ledState, debugLeds, readVars, countVars, autoVars, limitVars, potVars, calVars,
                   steerVars, brakeVars, inputVars, logVars, envVars, phaseLog>>

\* The launch loop has ended: autonomous is executing from now on.
ExecStart ==
    /\ pc = "ExecStart"
    /\ m_bIsAutonomousExecuting' = TRUE
    /\ autonomousStartTimeMs' = clock
    /\ elapsedMs' = 0
    /\ phaseLog' = Append(phaseLog, "Executing")
    /\ pc' = "ExecCheck"
    /\ lastOp' = "ExecStart"
    /\ UNCHANGED <<sub, rd, ledState, debugLeds, readVars, countVars, limitVars, potVars, calVars, steerVars,
                   brakeVars, inputVars, logVars, envVars, switchVars>>

\* "while (CalcDeltaTimeMs(autonomousStartTimeMs) < AUTO_MAX_LENGTH_MS)".
ExecCheck ==
    /\ pc = "ExecCheck"
    /\ pc' = IF ULongLess(CalcDeltaTimeMs(autonomousStartTimeMs), AUTO_MAX_LENGTH_MS)
             THEN "ExecSwitch" ELSE "ExitAutonomous"
    /\ lastOp' = "ExecCheck"
    /\ UNCHANGED <<sub, rd, ledState, debugLeds, readVars, countVars, autoVars, limitVars, potVars, calVars,
                   steerVars, brakeVars, inputVars, logVars, envVars, switchVars, phaseLog>>

\* (Variant: the cancelled cycle finishes its sensor reads before leaving.)
ExecSwitch_NoBreak ==
    /\ pc = "ExecSwitch"
    /\ IsAutonomousSwitchSet
    /\ ReleaseBrake(m_BrakeReleaseLimitSwitchValue)
    /\ ReadLimitSwitches
    /\ ReadPotentiometers
    /\ pc' = IF autonomousSwitchPin THEN "DriftLeft1" ELSE "ExitAutonomous"
    /\ lastOp' = IF autonomousSwitchPin THEN "ExecSensors" ELSE "ExecCancelled"
    /\ UNCHANGED <<sub, rd, ledState, debugLeds, readVars, countVars, autoVars, calVars, steerVars,
                   inputVars, logVars, envVars, phaseLog>>

\* The head of a cycle: the cancel check, and, if autonomous goes on, the
\* brake release (on the release limit stored by the previous read) and
\* the sensor reads.
ExecSwitch ==
    /\ pc = "ExecSwitch"
    /\ IsAutonomousSwitchSet
    /\ IF autonomousSwitchPin
       THEN /\ ReleaseBrake(m_BrakeReleaseLimitSwitchValue)
            /\ ReadLimitSwitches
            /\ ReadPotentiometers
            /\ pc' = "DriftLeft1"
            /\ lastOp' = "ExecSensors"
       ELSE /\ pc' = "ExitAutonomous"
            /\ lastOp' = "ExecCancelled"
            /\ UNCHANGED <<brakeVars, limitVars, potVars>>
    /\ UNCHANGED <<sub, rd, ledState, debugLeds, readVars, countVars, autoVars, calVars, steerVars,
                   inputVars, logVars, envVars, phaseLog>>

\* The comparisons of the drift rule, on the values read for them.
LeftIsAhead == leftRead >= UIntAdd(rightRead, AUTO_HALL_SENSOR_COUNT_MAX_DIFF)
RightIsAhead == rightRead >= UIntAdd(leftRead, AUTO_HALL_SENSOR_COUNT_MAX_DIFF)

\* "if (m_LeftHallCount >= (m_RightHallCount + AUTO_HALL_SENSOR_COUNT_MAX_DIFF))".
DriftTest1 ==
    /\ pc = "DriftTest1"
    /\ IF LeftIsAhead
       THEN /\ SetSteeringSpeedControllerValue(AUTO_TURN_LEFT_SPEED)
            /\ pc' = "ExecLog"
            /\ lastOp' = "TurnLeft"
       ELSE /\ pc' = "DriftRight2"
            /\ lastOp' = "DriftTest1"
            /\ UNCHANGED <<steerVars, limitVars>>
    /\ UNCHANGED <<sub, rd, ledState, debugLeds, readVars, countVars, autoVars, potVars, calVars, brakeVars,
                   inputVars, logVars, envVars, switchVars, phaseLog>>

\* "else if (m_RightHallCount >= (m_LeftHallCount + ...))" and the final else.
DriftTest2 ==
    /\ pc = "DriftTest2"
    /\ IF RightIsAhead
       THEN /\ SetSteeringSpeedControllerValue(AUTO_TURN_RIGHT_SPEED)
            /\ lastOp' = "TurnRight"
            /\ UNCHANGED potVars
       ELSE /\ CenterSteeringByPotentiometer
            /\ lastOp' = "Center"
    /\ pc' = "ExecLog"
    /\ UNCHANGED <<sub, rd, ledState, debugLeds, readVars, countVars, autoVars, calVars, brakeVars,
                   inputVars, logVars, envVars, switchVars, phaseLog>>

\* "LogData(CalcDeltaTimeMs(autonomousStartTimeMs))", the end of a cycle.
ExecLog ==
    /\ pc = "ExecLog"
    /\ LogData(CalcDeltaTimeMs(autonomousStartTimeMs))
    /\ UNCHANGED <<storeVars, serialInput>>
    /\ pc' = "ExecCheck"
    /\ lastOp' = "ExecLog"
    /\ UNCHANGED <<sub, rd, ledState, debugLeds, readVars, countVars, autoVars, limitVars, potVars, calVars,
                   steerVars, brakeVars, inputVars, envVars, switchVars, phaseLog>>

\* ------------------------------------------------------------------------
\* Main context: ExitAutonomous
\* ------------------------------------------------------------------------
\* "Stop the motors": the brake is applied (on the apply limit stored by
\* the previous read) and the steering is switched off.
ExitAutonomous ==
    /\ pc = "ExitAutonomous"
    /\ ApplyBrake(m_BrakeApplyLimitSwitchValue)
    /\ SetSteeringSpeedControllerValue(OFF)
    /\ phaseLog' = Append(phaseLog, "Exiting")
    /\ offSeenSinceExit' = FALSE
    /\ pc' = "ExitResetLeft"
    /\ lastOp' = "ExitAutonomous"
    /\ UNCHANGED <<sub, rd, ledState, debugLeds, readVars, countVars, autoVars, potVars, calVars,
                   inputVars, logVars, envVars, lastSwitchRead>>

\* (Variant: ExitAutonomous returns into the autonomous routine.)
AfterExitAutonomous_Relaunch == "ExecStart"

\* Where control goes when ExitAutonomous returns: both of its callers
\* return to Run.
AfterExitAutonomous == "Run"

\* (Variant: ExitAutonomous returns without waiting for the switch.)
ExitWait_NoWait ==
    /\ pc = "ExitWait"
    /\ IsAutonomousSwitchSet
    /\ pc' = AfterExitAutonomous
    /\ phaseLog' = IF AfterExitAutonomous = "Run" THEN << >> ELSE phaseLog
    /\ leftPulses' = 0
    /\ rightPulses' = 0
    /\ lastOp' = "ExitWait"
    /\ UNCHANGED <<sub, rd, ledState, debugLeds, readVars, m_LeftHallCount, m_RightHallCount,
                   m_LeftWheelDistanceInches, m_RightWheelDistanceInches, autoVars, limitVars, potVars, calVars,
                   steerVars, brakeVars, inputVars, logVars, envVars>>

\* "while (IsAutonomousSwitchSet()) {}": the run is over when the switch
\* reads off.
ExitWait ==
    /\ pc = "ExitWait"
    /\ IsAutonomousSwitchSet
    /\ IF autonomousSwitchPin
       THEN /\ pc' = "ExitWait"
            /\ phaseLog' = phaseLog
       ELSE /\ pc' = AfterExitAutonomous
            /\ phaseLog' = IF AfterExitAutonomous = "Run" THEN << >> ELSE phaseLog
    /\ leftPulses' = 0
    /\ rightPulses' = 0
    /\ lastOp' = "ExitWait"
    /\ UNCHANGED <<sub, rd, ledState, debugLeds, readVars, m_LeftHallCount, m_RightHallCount,
                   m_LeftWheelDistanceInches, m_RightWheelDistanceInches, autoVars, limitVars, potVars, calVars,
                   steerVars, brakeVars, inputVars, logVars, envVars>>

\* ------------------------------------------------------------------------
\* The blocking brake calls
\* ------------------------------------------------------------------------
\* ApplyBrake(true) and ReleaseBrake(true) have no caller in the program;
\* they are modelled as calls made where Run would be called, the wait
\* loop taking one step per pass.

\* (Variant: the call returns without waiting for the limit switch.)
ApplyBrakeBlocking_NoWait ==
    /\ pc = "Run"
    /\ brakePwm' = SetSpeed(OFF)
    /\ m_bApplyingBrake' = FALSE
    /\ m_bBrakeApplied' = TRUE
    /\ pc' = "Run"
    /\ lastOp' = "ApplyBrakeReturned"
    /\ UNCHANGED <<sub, rd, ledState, debugLeds, readVars, countVars, autoVars, limitVars, potVars, calVars,
                   steerVars, m_bReleasingBrake, inputVars, logVars, envVars,
                   switchVars, phaseLog>>

\* ApplyBrake(true): the call up to the wait loop or, with the apply limit
\* already stored as asserted, up to its return; and a pass of "while
\* (m_BrakeApplyLimitSwitchValue != 1)" or, when the loop ends, the rest
\* of the function.
ApplyBrakeBlocking ==
    /\ pc \in {"Run", "ApplyWait"}
    /\ IF m_BrakeApplyLimitSwitchValue # 1
       THEN /\ brakePwm' = SetSpeed(APPLY_BRAKE_PERCENTAGE)
            /\ m_bApplyingBrake' = TRUE
            /\ IF pc = "ApplyWait" THEN ReadLimitSwitches ELSE UNCHANGED limitVars
            /\ pc' = "ApplyWait"
            /\ lastOp' = "ApplyBrakeWaiting"
            /\ UNCHANGED m_bBrakeApplied
       ELSE /\ brakePwm' = SetSpeed(OFF)
            /\ m_bApplyingBrake' = FALSE
            /\ m_bBrakeApplied' = TRUE
            /\ pc' = "Run"
            /\ lastOp' = "ApplyBrakeReturned"
            /\ UNCHANGED limitVars
    /\ UNCHANGED <<sub, rd, ledState, debugLeds, readVars, countVars, autoVars, potVars, calVars,
                   steerVars, m_bReleasingBrake, inputVars, logVars, envVars,
                   switchVars, phaseLog>>

\* ReleaseBrake(true), likewise.
ReleaseBrakeBlocking ==
    /\ pc \in {"Run", "ReleaseWait"}
    /\ IF m_BrakeReleaseLimitSwitchValue # 1
       THEN /\ brakePwm' = SetSpeed(RELEASE_BRAKE_PERCENTAGE)
            /\ m_bReleasingBrake' = TRUE
            /\ IF pc = "ReleaseWait" THEN ReadLimitSwitches ELSE UNCHANGED limitVars
            /\ pc' = "ReleaseWait"
            /\ lastOp' = "ReleaseBrakeWaiting"
            /\ UNCHANGED m_bBrakeApplied
       ELSE /\ brakePwm' = SetSpeed(OFF)
            /\ m_bReleasingBrake' = FALSE
            /\ m_bBrakeApplied' = FALSE
            /\ pc' = "Run"
            /\ lastOp' = "ReleaseBrakeReturned"
            /\ UNCHANGED limitVars
    /\ UNCHANGED <<sub, rd, ledState, debugLeds, readVars, countVars, autoVars, potVars, calVars,
                   steerVars, m_bApplyingBrake, inputVars, logVars, envVars,
                   switchVars, phaseLog>>

\* ------------------------------------------------------------------------
\* ASSERT and ProcessAssert
\* ------------------------------------------------------------------------
\* Positions inside ProcessAssert: with the singleton created, and (Early)
\* with m_pSoapBoxDerbyCar still null.
AssertSites == {"ProcessAssert", "AssertStrobe", "EarlyAssert", "EarlyStrobe"}

\* (Variant: the emergency stop leaves the brake alone.)
EmergencyStop_SteeringOnly ==
    /\ m_SteeringDirection' = "NONE"
    /\ steeringPwm' = SetSpeed(OFF)
    /\ lastSteerRequest' = OFF
    /\ UNCHANGED <<m_CurrentSteeringValue, brakeVars>>

\* EmergencyStop: the steering controller is sent OFF and the brake is
\* applied (without waiting, on the stored apply limit value).
EmergencyStop ==
    /\ m_SteeringDirection' = "NONE"
    /\ steeringPwm' = SetSpeed(OFF)
    /\ lastSteerRequest' = OFF
    /\ ApplyBrake(m_BrakeApplyLimitSwitchValue)
    /\ UNCHANGED m_CurrentSteeringValue

\* An ASSERT fails: in the running program, or, before
\* CreateSingletonInstance, the assertion that the singleton is not null.
\* ProcessAssert is entered and its local ledState initialised.
AssertFails ==
    /\ pc \in {"Run", "NotCreated"}
    /\ pc' = IF pc = "Run" THEN "ProcessAssert" ELSE "EarlyAssert"
    /\ ledState' = TRUE
    /\ lastOp' = "ASSERT"
    /\ UNCHANGED <<sub, rd, debugLeds, readVars, countVars, autoVars, limitVars,
                   potVars, calVars, steerVars, brakeVars, inputVars, logVars, envVars,
                   switchVars, phaseLog>>

\* The constructor, entered by CreateSingletonInstance, reaches
\* ConfigureSensors: both hall sensor handlers are attached.  The
\* constructor goes on (ArmBrake, the blocking calibration) and
\* m_pSoapBoxDerbyCar stays null until it returns.
ConfigureSensors ==
    /\ pc = "NotCreated"
    /\ pc' = "Constructing"
    /\ lastOp' = "ConfigureSensors"
    /\ UNCHANGED <<sub, rd, ledState, debugLeds, readVars, countVars, autoVars, limitVars,
                   potVars, calVars, steerVars, brakeVars, inputVars, logVars, envVars,
                   switchVars, phaseLog>>

\* The constructor returns and CreateSingletonInstance assigns the pointer.
ConstructorReturns ==
    /\ pc = "Constructing"
    /\ pc' = "Run"
    /\ lastOp' = "CreateSingletonInstance"
    /\ UNCHANGED <<sub, rd, ledState, debugLeds, readVars, countVars, autoVars, limitVars,
                   potVars, calVars, steerVars, brakeVars, inputVars, logVars, envVars,
                   switchVars, phaseLog>>

\* A wheel magnet passes a hall sensor while the constructor is running:
\* the handler calls GetSingletonInstance, whose ASSERT finds the pointer
\* null and enters ProcessAssert, in interrupt context, before any counter
\* is incremented.
HallInterruptWhileConstructing ==
    /\ pc = "Constructing"
    /\ pc' = "EarlyAssert"
    /\ ledState' = TRUE
    /\ lastOp' = "HallPulseAssert"
    /\ UNCHANGED <<sub, rd, debugLeds, readVars, countVars, autoVars, limitVars,
                   potVars, calVars, steerVars, brakeVars, inputVars, logVars, envVars,
                   switchVars, phaseLog>>

\* Positions at which the hall sensor handlers are attached, and at which
\* m_pSoapBoxDerbyCar is null.
DetachedSites == {"NotCreated"}
NullSingletonSites == {"NotCreated", "Constructing", "EarlyAssert", "EarlyStrobe"}

\* The head of a pass of "while (true)": EmergencyStop, if the singleton
\* is not null.
ProcessAssert ==
    /\ pc \in {"ProcessAssert", "EarlyAssert"}
    /\ IF pc = "ProcessAssert"
       THEN /\ EmergencyStop
            /\ pc' = "AssertStrobe"
            /\ lastOp' = "EmergencyStop"
       ELSE /\ pc' = "EarlyStrobe"
            /\ lastOp' = "ProcessAssert"
            /\ UNCHANGED <<steerVars, brakeVars>>
    /\ UNCHANGED <<sub, rd, ledState, debugLeds, readVars, countVars, autoVars, limitVars,
                   potVars, calVars, inputVars, logVars, envVars, switchVars, phaseLog>>

\* The rest of the pass: ledState is written to the debug LEDs and
\* inverted.
StrobeDebugLeds ==
    /\ pc \in {"AssertStrobe", "EarlyStrobe"}
    /\ debugLeds' = ledState
    /\ ledState' = ~ledState
    /\ pc' = IF pc = "AssertStrobe" THEN "ProcessAssert" ELSE "EarlyAssert"
    /\ lastOp' = "Strobe"
    /\ UNCHANGED <<sub, rd, readVars, countVars, autoVars, limitVars,
                   potVars, calVars, steerVars, brakeVars, inputVars, logVars, envVars,
                   switchVars, phaseLog>>

\* ------------------------------------------------------------------------
\* The program
\* ------------------------------------------------------------------------
\* A step of the main context.
Program ==
    \/ RunManual
    \/ RunAutonomous
    \/ AutoWait
    \/ AutoCheck
    \/ ResetHallSensorCounts
    \/ LoadFirstByte
    \/ LoadSecondByte
    \/ LaunchSwitch
    \/ ExecStart
    \/ ExecCheck
    \/ ExecSwitch
    \/ DriftTest1
    \/ DriftTest2
    \/ ExecLog
    \/ ExitAutonomous
    \/ ExitWait

\* The program with both hall sensor interrupts and the operator's switches.
Next ==
    \/ Program
    \/ LeftHallSensorInterruptHandler
    \/ RightHallSensorInterruptHandler
    \/ AutonomousSwitchChange
    \/ MasterEnableChange

Spec == Init /\ [][Next]_vars

\* The program over long distances: the counters reach their byte and word
\* boundaries.
NextLongRun ==
    \/ Program
    \/ LeftHallSensorInterruptHandler
    \/ LeftHallBurst
    \/ RightHallBurst
    \/ AutonomousSwitchChange
    \/ MasterEnableChange

SpecLongRun == Init /\ [][NextLongRun]_vars

\* The program with time passing and its sensors changing.
NextTimed ==
    \/ Program
    \/ RightHallBurst
    \/ Tick
    \/ AutonomousSwitchChange
    \/ MasterEnableChange

SpecTimed == Init /\ [][NextTimed]_vars

\* The program with the operator's switches and a moving right wheel, the
\* main context never halting: loop() calls Run again and again and the
\* processor always executes the next statement.
NextOperator ==
    \/ Program
    \/ RightHallBurst
    \/ AutonomousSwitchChange
    \/ MasterEnableChange

SpecOperator == Init /\ [][NextOperator]_vars /\ WF_vars(Program)

\* Manual control with the clock advancing by half log intervals, in a
\* build of either configuration of DATA_LOG_OVERFLOW_ALLOWED.
NextLog ==
    \/ RunManual
    \/ LogTick

SpecLog == InitEitherBuild /\ [][NextLog]_vars

\* The program with the operator's switches, both wheels moving and a
\* turning front axle.
NextCentering ==
    \/ Program
    \/ LeftHallBurst
    \/ RightHallBurst
    \/ AutonomousSwitchChange
    \/ MasterEnableChange
    \/ PotentiometerChange

SpecCentering == Init /\ [][NextCentering]_vars

\* The same with disturbed potentiometer readings.
NextFilter ==
    \/ Program
    \/ LeftHallBurst
    \/ RightHallBurst
    \/ AutonomousSwitchChange
    \/ MasterEnableChange
    \/ PotentiometerDisturbed

SpecFilter == Init /\ [][NextFilter]_vars

\* The program with the operator's switches, a moving right wheel and a
\* brake that reaches and leaves its limit switches.
NextBrake ==
    \/ Program
    \/ RightHallBurst
    \/ AutonomousSwitchChange
    \/ MasterEnableChange
    \/ BrakeSwitchChange
    \/ BrakeLimitSwitchChange

SpecBrake == Init /\ [][NextBrake]_vars

\* Manual control and blocking brake calls, with a brake that reaches and
\* leaves its limit switches.
NextBrakeWait ==
    \/ RunManual
    \/ ApplyBrakeBlocking
    \/ ReleaseBrakeBlocking
    \/ BrakeLimitSwitchChange

SpecBrakeWait == Init /\ [][NextBrakeWait]_vars

\* Manual control with restarts of the board and failing assertions.
NextAssert ==
    \/ RunManual
    \/ YawChange
    \/ BrakeSwitchChange
    \/ MasterEnableChange
    \/ RestartBeforeCreate
    \/ CreateSingletonInstance
    \/ AssertFails
    \/ ProcessAssert
    \/ StrobeDebugLeds

SpecAssert == Init /\ [][NextAssert]_vars

\* Manual control, restarts with the constructor taken in steps, and the
\* wheels turning while it runs.
NextConstruct ==
    \/ RunManual
    \/ YawChange
    \/ MasterEnableChange
    \/ RestartBeforeCreate
    \/ ConfigureSensors
    \/ ConstructorReturns
    \/ HallInterruptWhileConstructing
    \/ ProcessAssert
    \/ StrobeDebugLeds

SpecConstruct == Init /\ [][NextConstruct]_vars

\* Manual control with the clock, the controller and requests for the car
\* data on the data port.
NextTelemetry ==
    \/ RunManual
    \/ RunManualCarDataRequested
    \/ LogIntervalPasses
    \/ YawChange
    \/ MasterEnableChange
    \/ ProcessAssert
    \/ StrobeDebugLeds

SpecTelemetry == Init /\ [][NextTelemetry]_vars

\* The wait for the master enable with recalibrations, a turning front
\* axle and steering limit switches that open and close.
NextRecalibrate ==
    \/ RunAutonomous
    \/ AutoWait
    \/ CalibrateStart
    \/ CalLeft
    \/ CalRightStart
    \/ CalRight
    \/ CalCenterStart
    \/ CalCenter
    \/ CalDone
    \/ AutonomousSwitchChange
    \/ LimitSwitchChange
    \/ PotentiometerChange

SpecRecalibrate == Init /\ [][NextRecalibrate]_vars

\* Manual control after any calibration.
NextCalibrated ==
    \/ RunManual

SpecCalibrated == InitAnyCalibration /\ [][NextCalibrated]_vars

\* Manual control with the serial console, the clock and power cycles.
NextEeprom ==
    \/ RunManual
    \/ SerialInputArrives
    \/ LogIntervalPasses
    \/ PowerCycle

SpecEeprom == Init /\ [][NextEeprom]_vars

\* ClearDataLog(EEPROM_LOG) called between two manual cycles.  (No code of
\* the repository makes this call; the console clears the RAM log only.)
ClearStoredLog ==
    /\ pc = "Run"
    /\ ClearDataLogEeprom(m_DataLogIndex, m_bDataLogOverflowed, m_DataLog)
    /\ lastOp' = "ClearStoredLog"
    /\ UNCHANGED <<ctlVars, readVars, countVars, autoVars, limitVars, potVars, calVars,
                   steerVars, brakeVars, inputVars, lastTimeStamp, appends, serialInput,
                   m_Incarnation, overflowAllowed, boots, pinVars, timeVars, switchVars,
                   phaseLog>>

\* Manual control with the serial console, the clock and ClearDataLog
\* called for the stored log.
NextClear ==
    \/ RunManual
    \/ SerialInputArrives
    \/ LogIntervalPasses
    \/ ClearStoredLog

SpecClear == Init /\ [][NextClear]_vars

\* Manual control with the clock advancing by half log intervals and the
\* serial console used once the log has overflowed, in a build of either
\* configuration of DATA_LOG_OVERFLOW_ALLOWED.
NextOverflow ==
    \/ RunManual
    \/ LogTick
    \/ OverflowedInputArrives

SpecOverflow == InitEitherBuild /\ [][NextOverflow]_vars

\* ------------------------------------------------------------------------
\* The steering paths: direct commands and manual control
\* ------------------------------------------------------------------------
\* A direct call SetSteeringSpeedControllerValue(value), as made by the
\* autonomous drift correction, the calibration, the exit path and the
\* test bench.
SteeringCommand ==
    \E value \in SteerCommands :
        /\ pc = "Run"
        /\ SetSteeringSpeedControllerValue(value)
        /\ lastOp' = "SteeringCommand"
        /\ UNCHANGED <<ctlVars, readVars, countVars, autoVars, potVars, calVars, brakeVars,
                       inputVars, logVars, envVars, switchVars, phaseLog>>

NextSteer ==
    \/ SteeringCommand
    \/ RunManual
    \/ LimitSwitchChange
    \/ YawChange
    \/ MasterEnableChange

SpecSteer == Init /\ [][NextSteer]_vars

\* ------------------------------------------------------------------------
\* Properties of the steering paths (checked under SpecSteer)
\* ------------------------------------------------------------------------
\* The value the interlock lets through for the last request, given the
\* limit switches as they are.
InterlockedRequest == SteeringInterlock(lastSteerRequest, leftLimitPin, rightLimitPin)

\* |v| <= MIN_OUTPUT_PERCENTAGE for the last request v.
RequestWithinMinimum ==
    (lastSteerRequest <= MIN_OUTPUT_PERCENTAGE) /\ (-lastSteerRequest <= MIN_OUTPUT_PERCENTAGE)

\* Steps that called SetSteeringSpeedControllerValue.
SteeringCallOps == {"SteeringCommand", "RunAutonomous", "TurnLeft", "TurnRight", "Center",
                    "ExitAutonomous"}

\* C1: right after every call SetSteeringSpeedControllerValue(v) the stored
\* limit switch values are the switches as they are now (they were re-read
\* inside the call), and the value sent to the steering controller is 0 if
\* v < 0 with the left switch asserted or v > 0 with the right switch
\* asserted, and exactly v otherwise.  The manual path, which carries its
\* own copy of the interlock, sends the same value for every request
\* outside its dead zone.
C1_InterlockOnEveryCall ==
    /\ (lastOp \in SteeringCallOps) =>
          /\ m_LeftSteeringLimitSwitchValue = leftLimitPin
          /\ m_RightSteeringLimitSwitchValue = rightLimitPin
          /\ steeringPwm = SetSpeed(InterlockedRequest)
          /\ m_CurrentSteeringValue = InterlockedRequest
    /\ ((lastOp = "ManualSteering") /\ ~RequestWithinMinimum) =>
          /\ steeringPwm = SetSpeed(InterlockedRequest)
          /\ m_CurrentSteeringValue = InterlockedRequest

\* A left command was refused at the left limit.
C1_Witness ==
    /\ lastOp = "SteeringCommand"
    /\ lastSteerRequest = AUTO_TURN_LEFT_SPEED
    /\ leftLimitPin = 1
    /\ rightLimitPin = 0
    /\ steeringPwm = SetSpeed(OFF)

C3_DriftRuleOnAllCounts ==
    /\ (lastOp = "TurnLeft") =>
          /\ leftRead >= rightRead + AUTO_HALL_SENSOR_COUNT_MAX_DIFF
          /\ lastSteerRequest = AUTO_TURN_LEFT_SPEED
    /\ (lastOp = "DriftTest1") =>
          ~(leftRead >= rightRead + AUTO_HALL_SENSOR_COUNT_MAX_DIFF)
    /\ (lastOp = "TurnRight") =>
          /\ rightRead >= leftRead + AUTO_HALL_SENSOR_COUNT_MAX_DIFF
          /\ lastSteerRequest = AUTO_TURN_RIGHT_SPEED
    /\ (lastOp = "Center") =>
          ~(rightRead >= leftRead + AUTO_HALL_SENSOR_COUNT_MAX_DIFF)

\* The instance of the claim: left 10, right 6 gives a left turn.
C3_Witness ==
    /\ lastOp = "TurnLeft"
    /\ leftRead = 10
    /\ rightRead = 6
    /\ lastSteerRequest = AUTO_TURN_LEFT_SPEED

\* C4 (as stated): right after the transition from WaitingToLaunch to
\* Executing both wheel counters are exactly 0.
C4_CountsZeroAtLaunch ==
    (lastOp = "ExecStart") => (m_LeftHallCount = 0) /\ (m_RightHallCount = 0)

\* C4 (amended): the counters are zeroed when WaitingToLaunch is entered
\* and not at the transition: the transition to Executing leaves both
\* counters as they are, and it is taken only when the launch check has
\* just read AUTO_HALL_SENSOR_LAUNCH_COUNT or more from one of them.
C4_LaunchCountReached ==
    [][(pc = "ExecStart" /\ pc' # "ExecStart") =>
          /\ pc' = "ExecCheck"
          /\ m_bIsAutonomousExecuting'
          /\ (leftRead >= AUTO_HALL_SENSOR_LAUNCH_COUNT) \/ (rightRead >= AUTO_HALL_SENSOR_LAUNCH_COUNT)
          /\ UNCHANGED <<m_LeftHallCount, m_RightHallCount>>]_vars

\* Executing has just begun on the third pulse of the left wheel.
C4_Witness ==
    /\ lastOp = "ExecStart"
    /\ m_bIsAutonomousExecuting
    /\ m_LeftHallCount = AUTO_HALL_SENSOR_LAUNCH_COUNT
    /\ leftRead = AUTO_HALL_SENSOR_LAUNCH_COUNT
    /\ m_RightHallCount = 0

\* C5: within one autonomous run every value the main loop reads from a
\* wheel counter is at least the value it read from that counter before,
\* under every interleaving of the hall pulses with the main loop.
C5_ReadsNeverDecrease ==
    [][(pc \in LoadSites /\ sub = 1 /\ sub' = 0) =>
          /\ leftRead' >= leftRead
          /\ rightRead' >= rightRead]_vars

\* ------------------------------------------------------------------------
\* Properties of the autonomous supervisor
\* ------------------------------------------------------------------------
\* C6: once AUTO_MAX_LENGTH_MS or more have elapsed since Executing began,
\* the next evaluation of the loop condition leaves Executing for
\* ExitAutonomous, whatever the counters, the potentiometer and the
\* switch are; no cycle body is started by that evaluation.
C6_TimeoutLeavesExecuting ==
    [][(pc = "ExecCheck" /\ elapsedMs >= AUTO_MAX_LENGTH_MS /\ UNCHANGED envVars) =>
          pc' = "ExitAutonomous"]_vars

\* The loop condition has just failed on time with the switch still set.
C6_Witness ==
    /\ lastOp = "ExecCheck"
    /\ pc = "ExitAutonomous"
    /\ elapsedMs >= AUTO_MAX_LENGTH_MS
    /\ autonomousSwitchPin
    /\ lastSwitchRead
    /\ m_RightHallCount > 0

\* C7: in an Executing cycle that reads the autonomous switch as not set,
\* control goes to ExitAutonomous in that very step: the brake, the
\* stored limit switch and potentiometer values, the steering output and
\* the data log are left as they were.
C7_CancelSkipsCycleBody ==
    [][(pc = "ExecSwitch" /\ ~autonomousSwitchPin /\ UNCHANGED envVars) =>
          /\ pc' = "ExitAutonomous"
          /\ lastSwitchRead' = FALSE
          /\ UNCHANGED <<brakeVars, limitVars, potVars, steerVars, logVars>>]_vars

\* A cycle has just been cancelled before its first brake release.
C7_Witness ==
    /\ lastOp = "ExecCancelled"
    /\ pc = "ExitAutonomous"
    /\ ~lastSwitchRead
    /\ m_bIsAutonomousExecuting
    /\ brakePwm # SetSpeed(RELEASE_BRAKE_PERCENTAGE)

\* C8: the launch loop is left for Executing only by a counter read of
\* AUTO_HALL_SENSOR_LAUNCH_COUNT or more; a launch loop pass that reads
\* the switch as not set (both reads having been below the threshold)
\* goes to ExitAutonomous, and a run that went from WaitingToLaunch to
\* Exiting never sets the executing flag nor enters Executing.
C8_LaunchOnlyOnCount ==
    [][/\ (pc' = "ExecStart" /\ pc # "ExecStart") =>
             /\ pc \in {"LaunchLeft", "LaunchRight"}
             /\ (IF pc = "LaunchLeft" THEN leftRead' ELSE rightRead') >= AUTO_HALL_SENSOR_LAUNCH_COUNT
       /\ (pc = "LaunchSwitch" /\ ~autonomousSwitchPin /\ UNCHANGED envVars) =>
             /\ pc' = "ExitAutonomous"
             /\ leftRead < AUTO_HALL_SENSOR_LAUNCH_COUNT
             /\ rightRead < AUTO_HALL_SENSOR_LAUNCH_COUNT
             /\ ~m_bIsAutonomousExecuting'
       /\ (m_bIsAutonomousExecuting' /\ ~m_bIsAutonomousExecuting) => pc = "ExecStart"
       /\ (phaseLog = << "WaitingToLaunch", "Exiting" >>) =>
             /\ phaseLog' \in { phaseLog, << >> }
             /\ ~m_bIsAutonomousExecuting'
             /\ Phase' \in {"Exiting", "Idle"}]_vars

\* A run cancelled before launch waits for the switch in ExitAutonomous.
C8_Witness ==
    /\ phaseLog = << "WaitingToLaunch", "Exiting" >>
    /\ pc = "ExitWait"
    /\ ~m_bIsAutonomousExecuting
    /\ leftRead < AUTO_HALL_SENSOR_LAUNCH_COUNT
    /\ rightRead < AUTO_HALL_SENSOR_LAUNCH_COUNT

\* C9: ExitAutonomous applies the brake and commands the steering off,
\* then performs both counter resets, then waits, and returns to Run only
\* on reading the switch as not set; hence AutonomousRoutine is entered
\* only if the switch was read off since the previous ExitAutonomous.
C9_ExitWaitsForSwitchOff ==
    [][/\ (pc = "ExitAutonomous" /\ pc' # pc) =>
             /\ m_bBrakeApplied'
             /\ brakePwm' = (IF m_BrakeApplyLimitSwitchValue # 1
                             THEN SetSpeed(APPLY_BRAKE_PERCENTAGE) ELSE SetSpeed(OFF))
             /\ lastSteerRequest' = OFF
             /\ steeringPwm' = SetSpeed(OFF)
             /\ pc' = "ExitResetLeft"
       /\ (pc = "ExitResetLeft" /\ pc' # pc) =>
             /\ pc' = "ExitResetRight"
             /\ (LowByte(m_LeftHallCount') = 0) \/ (HighByte(m_LeftHallCount') = 0)
       /\ (pc = "ExitResetRight" /\ pc' # pc) =>
             /\ pc' = "ExitWait"
             /\ (LowByte(m_RightHallCount') = 0) \/ (HighByte(m_RightHallCount') = 0)
       /\ (pc = "ExitWait" /\ pc' # pc) =>
             /\ ~autonomousSwitchPin
             /\ lastSwitchRead' = FALSE
             /\ pc' = "Run"
       /\ (pc' = "EnterResetLeft" /\ pc # pc') => offSeenSinceExit]_vars

\* A second autonomous run begins, the brake still applied by the exit of
\* the first.
C9_Witness ==
    /\ lastOp = "AutonomousRoutine"
    /\ pc = "EnterResetLeft"
    /\ m_bBrakeApplied
    /\ offSeenSinceExit

\* C10: within one run of AutonomousRoutine the phase only moves forward,
\* WaitingToLaunch -> Executing -> Exiting or WaitingToLaunch -> Exiting,
\* and a run begins and ends in Run; so no phase is entered twice.
C10_PhasesOnlyForward ==
    [][(Phase' # Phase) =>
          << Phase, Phase' >> \in { << "Idle", "WaitingToLaunch" >>,
                                    << "WaitingToLaunch", "Executing" >>,
                                    << "WaitingToLaunch", "Exiting" >>,
                                    << "Executing", "Exiting" >>,
                                    << "Exiting", "Idle" >> }]_vars

\* A run that has gone through all three phases.
C10_Witness ==
    /\ phaseLog = << "WaitingToLaunch", "Executing", "Exiting" >>
    /\ Phase = "Exiting"
    /\ pc = "ExitWait"

\* C11: if the operator eventually releases the autonomous switch (and
\* leaves it released), every run of AutonomousRoutine reaches Exiting and
\* then returns to Run: it stays neither in WaitingToLaunch nor in
\* Executing nor in the wait of ExitAutonomous forever.
C11_RunTerminates ==
    (<>[](~autonomousSwitchPin)) =>
        /\ (Phase \in {"WaitingToLaunch", "Executing"}) ~> (Phase = "Exiting")
        /\ (Phase = "Exiting") ~> (Phase = "Idle")

\* A run that has executed has just returned to Run, the switch released.
C11_Witness ==
    /\ lastOp = "ExitWait"
    /\ pc = "Run"
    /\ ~autonomousSwitchPin
    /\ ~lastSwitchRead
    /\ ~m_bIsAutonomousExecuting
    /\ m_bBrakeApplied

\* ------------------------------------------------------------------------
\* Properties of the data log (checked under SpecLog)
\* ------------------------------------------------------------------------
\* A step that is a manual cycle, and one in which LogData accepts its entry.
ManualCycleStep ==
    lastOp' \in {"RunManual", "ManualSteering",
                 "ClearDataLog", "EraseEeprom", "RestoreLogFromEeprom", "WriteLogToEeprom"}
AcceptedAppendStep == appends' = appends + 1

\* C12 as stated: with overflow-write allowed and the log empty at
\* construction, m_bDataLogOverflowed is false after each of the first
\* MAX_DATA_LOG_ENTRIES accepted appends and true from the next one on.
C12_OverflowAtNPlusOne ==
    overflowAllowed => (m_bDataLogOverflowed <=> (appends > MAX_DATA_LOG_ENTRIES))

\* C12, amended: with overflow-write allowed and the log empty at
\* construction, m_bDataLogOverflowed is false after each of the first
\* MAX_DATA_LOG_ENTRIES - 1 accepted appends and true from the
\* MAX_DATA_LOG_ENTRIES-th on, the append that takes the cursor back to 0.
C12_OverflowAtNth ==
    overflowAllowed => (m_bDataLogOverflowed <=> (appends >= MAX_DATA_LOG_ENTRIES))

\* The append that fills the last slot has just been accepted.
C12_Witness ==
    /\ overflowAllowed
    /\ appends = MAX_DATA_LOG_ENTRIES
    /\ m_bDataLogOverflowed
    /\ m_DataLogIndex = 0
    /\ lastOp = "RunManual"

\* C13: an accepted append writes the entry at the slot the cursor
\* addressed before the call and at no other slot, moves the cursor to
\* (cursor + 1) mod MAX_DATA_LOG_ENTRIES, and sets m_bDataLogOverflowed
\* exactly when the old cursor was MAX_DATA_LOG_ENTRIES - 1; otherwise the
\* flag is unchanged.
C13_AcceptedAppend ==
    [][AcceptedAppendStep =>
          /\ EntryAt(m_DataLog', m_DataLogIndex)
                = << clock, Int32Of(m_FrontAxlePotentiometerValue') >>
          /\ \A slot \in LogSlots \ {m_DataLogIndex} :
                EntryAt(m_DataLog', slot) = EntryAt(m_DataLog, slot)
          /\ m_DataLogIndex' = (m_DataLogIndex + 1) % MAX_DATA_LOG_ENTRIES
          /\ m_bDataLogOverflowed' = IF m_DataLogIndex = MAX_DATA_LOG_ENTRIES - 1
                                     THEN TRUE
                                     ELSE m_bDataLogOverflowed]_vars

\* An append has been accepted after the wrap: it overwrote slot 0.
C13_Witness ==
    /\ appends = MAX_DATA_LOG_ENTRIES + 1
    /\ m_DataLogIndex = 1
    /\ m_bDataLogOverflowed
    /\ EntryAt(m_DataLog, 0) = << clock, Int32Of(m_FrontAxlePotentiometerValue) >>
    /\ lastOp = "RunManual"

\* C14: in a build with overflow-write disabled, a call of LogData made
\* when m_bDataLogOverflowed is true changes no entry, not the cursor and
\* not the flag; and every entry such a build accepts goes to a slot that
\* is still clear.
C14_NoAppendAfterOverflow ==
    [][~overflowAllowed =>
          /\ (m_bDataLogOverflowed /\ ManualCycleStep) => UNCHANGED ramLogVars
          /\ AcceptedAppendStep => (EntryAt(m_DataLog, m_DataLogIndex) = ZeroEntry)]_vars

\* With overflow-write disabled, LogData has just been called with the log
\* overflowed and the log interval elapsed.
C14_Witness ==
    /\ ~overflowAllowed
    /\ m_bDataLogOverflowed
    /\ appends = MAX_DATA_LOG_ENTRIES
    /\ ~ULongLess(CalcDeltaTimeMs(lastTimeStamp), DATA_LOG_ENTRY_INTERVAL_MS)
    /\ lastOp = "RunManual"

\* ------------------------------------------------------------------------
\* Properties of the stored log (checked under SpecEeprom)
\* ------------------------------------------------------------------------
\* A manual cycle whose ReadSerialInput carries out the given command.
CommandStep(c) == ManualCycleStep /\ (serialInput = c)

\* The EEPROM bytes a step changes.
ChangedBytes ==
    Cardinality({ i \in 1 .. CAR_DATA_SIZE : eepromCarData'[i] # eepromCarData[i] })
    + Cardinality({ cell \in ((DOMAIN eepromLog.held) \cup (DOMAIN eepromLog'.held)) \X (1 .. 8) :
                       EntryBytes(EntryAt(eepromLog', cell[1]))[cell[2]]
                          # EntryBytes(EntryAt(eepromLog, cell[1]))[cell[2]] })
    + ((MAX_DATA_LOG_ENTRIES
           - Cardinality((DOMAIN eepromLog.held) \cup (DOMAIN eepromLog'.held)))
          * Cardinality({ i \in 1 .. 8 :
                             EntryBytes(eepromLog'.fill)[i] # EntryBytes(eepromLog.fill)[i] }))

\* C15: RestoreLogFromEeprom, called while what the last WriteLogToEeprom
\* stored is still in EEPROM, leaves RAM with exactly the entries, the
\* cursor and the overflow flag that RAM held at that write, whatever
\* appends, ClearDataLog(RAM_LOG) and power cycles came in between.
C15_RestoreGivesWhatWasWritten ==
    [][(CommandStep("r") /\ (writtenLog # << >>)) =>
          /\ \A slot \in LogSlots : EntryAt(m_DataLog', slot) = EntryAt(writtenLog[1], slot)
          /\ m_DataLogIndex' = writtenLog[2]
          /\ m_bDataLogOverflowed' = writtenLog[3]]_vars

\* A log of one entry was written; a second entry was appended or the
\* board power cycled; the restore has brought the written log back.
C15_Witness ==
    /\ lastOp = "RestoreLogFromEeprom"
    /\ writtenLog # << >>
    /\ DOMAIN writtenLog[1].held = {0}
    /\ m_DataLog = writtenLog[1]
    /\ m_DataLogIndex = 1
    /\ writtenLog[2] = 1
    /\ appends = 2

\* C16: WriteLogToEeprom and EraseEeprom call EEPROM.write only for bytes
\* that differ from what is stored (as many writes as bytes changed), and
\* a WriteLogToEeprom that follows another of the same run of the program,
\* with the RAM log state as it was at the first, makes no write.
C16_WritesOnlyChangedBytes ==
    [][/\ (CommandStep("w") \/ CommandStep("e")) => (eepromWrites' = ChangedBytes)
       /\ (/\ CommandStep("w")
           /\ writtenLog = << m_DataLog', m_DataLogIndex', m_bDataLogOverflowed' >>
           /\ StoredIncarnation(eepromCarData) = m_Incarnation)
          => (eepromWrites' = 0)]_vars

\* A log of one entry has been written twice in a row.
C16_Witness ==
    /\ lastOp = "WriteLogToEeprom"
    /\ eepromWrites = 0
    /\ writtenLog = << m_DataLog, m_DataLogIndex, m_bDataLogOverflowed >>
    /\ DOMAIN m_DataLog.held = {0}
    /\ m_DataLogIndex = 1
    /\ eepromLog = m_DataLog

\* C17 as stated: a RestoreLogFromEeprom that finds another header than
\* "SBDC" in EEPROM leaves the cursor 0 and the overflow flag false.
C17_RestoreChecksHeader ==
    [][(CommandStep("r") /\ (StoredHeader(eepromCarData) # NON_VOLATILE_CAR_DATA_HEADER)) =>
          /\ m_DataLogIndex' = 0
          /\ ~m_bDataLogOverflowed']_vars

\* C18 as stated: the constructor that finds the header "SBDC" in EEPROM
\* sets m_Incarnation to one more than the constructor before it did.
C18_IncarnationCountsBoots ==
    [][((lastOp' = "PowerCycle") /\ (StoredHeader(eepromCarData) = NON_VOLATILE_CAR_DATA_HEADER)) =>
          (m_Incarnation' = m_Incarnation + 1)]_vars

\* ------------------------------------------------------------------------
\* Properties of the calibration (checked under SpecCalibrated)
\* ------------------------------------------------------------------------
\* C19: whatever two readings in 0..1023 the calibration took at the limit
\* switches, the center it computed lies between them, both included.
C19_CenterBetweenExtremes ==
    m_bCalibrationComplete =>
       IF m_FrontAxlePotMaxLeftValue > m_FrontAxlePotMaxRightValue
       THEN /\ m_FrontAxlePotMaxRightValue <= m_FrontAxlePotCenterValue
            /\ m_FrontAxlePotCenterValue <= m_FrontAxlePotMaxLeftValue
       ELSE /\ m_FrontAxlePotMaxLeftValue <= m_FrontAxlePotCenterValue
            /\ m_FrontAxlePotCenterValue <= m_FrontAxlePotMaxRightValue

\* A calibration with the extremes reversed and an odd distance apart, in
\* use by a manual cycle.
C19_Witness ==
    /\ m_bCalibrationComplete
    /\ m_FrontAxlePotMaxLeftValue = 0
    /\ m_FrontAxlePotMaxRightValue = POTENTIOMETER_MAX_VALUE - 1
    /\ m_FrontAxlePotCenterValue = POTENTIOMETER_MAX_VALUE \div 2
    /\ lastOp = "RunManual"

\* ------------------------------------------------------------------------
\* Properties of the centering (checked under SpecCentering)
\* ------------------------------------------------------------------------
\* C20 as stated: after CenterSteeringByPotentiometer, the value it
\* requested is 0 if the (filtered) reading is at most
\* POTENTIOMETER_MAX_JITTER_VALUE away from the center, the boundaries
\* included; it is AUTO_TURN_RIGHT_SPEED only for a reading above that
\* band and AUTO_TURN_LEFT_SPEED only for one below it.
C20_ZeroWithinJitterBand ==
    (lastOp = "Center") =>
       LET deviation == m_FrontAxlePotentiometerValue - m_FrontAxlePotCenterValue
       IN  /\ ((deviation <= POTENTIOMETER_MAX_JITTER_VALUE)
                 /\ (deviation >= -POTENTIOMETER_MAX_JITTER_VALUE)) => (lastSteerRequest = OFF)
           /\ (lastSteerRequest = AUTO_TURN_RIGHT_SPEED)
                 => (deviation > POTENTIOMETER_MAX_JITTER_VALUE)
           /\ (lastSteerRequest = AUTO_TURN_LEFT_SPEED)
                 => (deviation < -POTENTIOMETER_MAX_JITTER_VALUE)

\* The centering has requested a turn for a reading on the boundary of the
\* band.
C20_Witness ==
    /\ lastOp = "Center"
    /\ m_FrontAxlePotCenterValue = 500
    /\ m_FrontAxlePotentiometerValue = m_FrontAxlePotCenterValue + POTENTIOMETER_MAX_JITTER_VALUE
    /\ lastSteerRequest = AUTO_TURN_RIGHT_SPEED

\* ------------------------------------------------------------------------
\* Properties of the potentiometer filter (checked under SpecFilter)
\* ------------------------------------------------------------------------
\* A step that calls ReadPotentiometers.
PotReadStep ==
    lastOp' \in {"RunManual", "ManualSteering", "ExecSensors", "Center",
                 "ClearDataLog", "EraseEeprom", "RestoreLogFromEeprom", "WriteLogToEeprom"}
\* The readings the filter accepts.
AcceptedReadings ==
    (m_FrontAxlePotMaxRightValue - POTENTIOMETER_MAX_JITTER_VALUE)
       .. (m_FrontAxlePotMaxLeftValue + POTENTIOMETER_MAX_JITTER_VALUE)

\* C21: with the calibration complete and leftExtreme >= rightExtreme,
\* every ReadPotentiometers leaves the stored value in
\* [rightExtreme - jitter, leftExtreme + jitter]: a raw reading outside the
\* interval is replaced by the last good value, which stays; a raw reading
\* inside it is stored and becomes the last good value.
C21_FilteredReading ==
    [][(/\ PotReadStep
        /\ m_bCalibrationComplete
        /\ m_FrontAxlePotMaxLeftValue >= m_FrontAxlePotMaxRightValue) =>
          /\ m_FrontAxlePotentiometerValue' \in AcceptedReadings
          /\ IF potPin \in AcceptedReadings
             THEN /\ m_FrontAxlePotentiometerValue' = potPin
                  /\ m_LastGoodPotValue' = potPin
             ELSE /\ m_FrontAxlePotentiometerValue' = m_LastGoodPotValue
                  /\ m_LastGoodPotValue' = m_LastGoodPotValue]_vars

\* A reading one beyond the accepted interval has been replaced by the last
\* good value, which was a reading on the boundary of the interval.
C21_Witness ==
    /\ lastOp = "ExecSensors"
    /\ potPin = m_FrontAxlePotMaxLeftValue + POTENTIOMETER_MAX_JITTER_VALUE + 1
    /\ m_FrontAxlePotentiometerValue = m_FrontAxlePotMaxLeftValue + POTENTIOMETER_MAX_JITTER_VALUE
    /\ m_LastGoodPotValue = m_FrontAxlePotentiometerValue


\* C22 (as stated): a calibration in whose return-to-center phase the left
\* limit switch was asserted does not end with the calibration marked
\* complete.
C22_TrippedReturnNotComplete ==
    (lastOp = "Calibrated" /\ returnTripped) => ~m_bCalibrationComplete

\* A calibration has ended whose return phase saw the left limit switch
\* asserted.
C22_Witness ==
    lastOp = "Calibrated" /\ returnTripped /\ m_LeftSteeringLimitSwitchValue = 1

\* A pass of a control loop has just ended and no input has changed since:
\* a manual cycle of Run, or a pass of the wait of ExitAutonomous.  (The
\* next pass of the loop starts from this very state.)
CycleCompleted ==
    \/ pc = "Run" /\ lastOp \in {"RunManual", "ManualSteering"}
    \/ pc = "ExitWait" /\ lastOp = "ExitWait"

\* C23 (as stated): when a pass of the control loop was made with a brake
\* limit switch asserted, the brake actuator is no longer driven in the
\* direction of that switch.
C23_BrakeStopsAtLimit ==
    CycleCompleted =>
        /\ (brakeApplyPin = 1 => brakePwm # SetSpeed(APPLY_BRAKE_PERCENTAGE))
        /\ (brakeReleasePin = 1 => brakePwm # SetSpeed(RELEASE_BRAKE_PERCENTAGE))

\* The wait of ExitAutonomous has made a pass with the apply limit switch
\* asserted and the brake still driven in the apply direction.
C23_Witness ==
    /\ pc = "ExitWait"
    /\ lastOp = "ExitWait"
    /\ brakeApplyPin = 1
    /\ m_bApplyingBrake
    /\ brakePwm = SetSpeed(APPLY_BRAKE_PERCENTAGE)


\* C24: when ApplyBrake(true) returns, the apply limit switch has been read
\* as asserted, the brake command is 0 and the applying flag is false; the
\* same for ReleaseBrake(true), the release limit switch and the releasing
\* flag.
C24_BlockingCallEndsAtLimit ==
    /\ (lastOp = "ApplyBrakeReturned") =>
           /\ m_BrakeApplyLimitSwitchValue = 1
           /\ brakePwm = SetSpeed(OFF)
           /\ ~m_bApplyingBrake
    /\ (lastOp = "ReleaseBrakeReturned") =>
           /\ m_BrakeReleaseLimitSwitchValue = 1
           /\ brakePwm = SetSpeed(OFF)
           /\ ~m_bReleasingBrake

\* ApplyBrake(true) has returned with the apply limit switch closed and the
\* release limit switch last read open.
C24_Witness ==
    /\ lastOp = "ApplyBrakeReturned"
    /\ m_bBrakeApplied
    /\ m_BrakeApplyLimitSwitchValue = 1
    /\ m_BrakeReleaseLimitSwitchValue = 0
    /\ brakeApplyPin = 1


C26_NoTornRead ==
    [][(pc \in LoadSites /\ sub = 1 /\ sub' = 0) =>
          LET now == IF pc \in LeftSites THEN m_LeftHallCount ELSE m_RightHallCount
              v == IF pc \in LeftSites THEN leftRead' ELSE rightRead'
          IN  ((v - rd) % UIntMod) <= ((now - rd) % UIntMod)]_vars

\* The drift rule has read 511 from the left counter, which went from 255
\* to 256 between the two byte loads.
C26_Witness ==
    /\ lastOp = "LoadSecondByte"
    /\ pc = "DriftRight1"
    /\ leftRead = MakeWord(ByteMod - 1, 1)
    /\ m_LeftHallCount = ByteMod


\* C27 (as stated): when ResetHallSensorCounts returns, each counter equals
\* the number of pulses of its wheel handled since the reset of that
\* counter began.
C27_ResetLosesNoPulse ==
    (lastOp = "ResetHallSensorCounts" /\ pc \in {"LaunchLeft", "ExitWait"}) =>
        /\ m_LeftHallCount = leftPulses
        /\ m_RightHallCount = rightPulses

\* ResetHallSensorCounts has returned with the right counter at 0 although
\* a pulse of the right wheel was handled between its two byte stores.
C27_Witness ==
    /\ lastOp = "ResetHallSensorCounts"
    /\ pc = "LaunchLeft"
    /\ m_RightHallCount = 0
    /\ rightPulses = 1


\* C28 (as stated): the brake decision of a control-loop iteration is made
\* on the limit switch values read in that iteration: after the head of
\* an Executing cycle, and after a manual cycle that updated the speed
\* controllers, the brake command is the one that fits the stored limit
\* switch values, which that iteration has read.
C28_DecisionsOnFreshReadings ==
    [][/\ (pc = "ExecSwitch" /\ lastOp' = "ExecSensors") =>
              brakePwm' = IF m_BrakeReleaseLimitSwitchValue' # 1
                          THEN SetSpeed(RELEASE_BRAKE_PERCENTAGE) ELSE SetSpeed(OFF)
       /\ (pc = "Run" /\ lastOp' = "ManualSteering") =>
              brakePwm' = IF m_bBrakeSwitch'
                          THEN IF m_BrakeReleaseLimitSwitchValue' # 1
                               THEN SetSpeed(RELEASE_BRAKE_PERCENTAGE) ELSE SetSpeed(OFF)
                          ELSE IF m_BrakeApplyLimitSwitchValue' # 1
                               THEN SetSpeed(APPLY_BRAKE_PERCENTAGE) ELSE SetSpeed(OFF)]_vars

\* An Executing cycle has read the release limit switch as asserted after
\* its ReleaseBrake call drove the brake in the release direction.
C28_Witness ==
    /\ lastOp = "ExecSensors"
    /\ m_BrakeReleaseLimitSwitchValue = 1
    /\ m_bReleasingBrake
    /\ brakePwm = SetSpeed(RELEASE_BRAKE_PERCENTAGE)


\* C29: while autonomous is executing, CalcDeltaTimeMs of the start time is
\* the true number of milliseconds elapsed since the start, also when the
\* 32-bit clock has wrapped in between; and the loop condition of
\* Executing fails exactly when AUTO_MAX_LENGTH_MS or more have elapsed.
C29_DeltaSurvivesWrap ==
    [][/\ m_bIsAutonomousExecuting' =>
              (CalcDeltaTimeMs(autonomousStartTimeMs))' = ULongOf(elapsedMs')
       /\ (pc = "ExecCheck" /\ lastOp' = "ExecCheck") =>
              ((pc' = "ExitAutonomous") <=> (elapsedMs >= AUTO_MAX_LENGTH_MS))]_vars

\* A run that began before the wrap of the clock has been ended on time
\* after it.
C29_Witness ==
    /\ lastOp = "ExecCheck"
    /\ pc = "ExitAutonomous"
    /\ autonomousStartTimeMs[1] >= UIntMod - 3
    /\ clock[1] < 3
    /\ elapsedMs >= AUTO_MAX_LENGTH_MS


\* C30 (as stated): after an operation that sends a command to the
\* steering controller, the stored current steering value is the value
\* sent and the stored direction is the one of that value.
C30_StoredValueIsSent ==
    (lastOp \in (SteeringCallOps \cup {"ManualSteering", "EmergencyStop"})) =>
        /\ steeringPwm = SetSpeed(m_CurrentSteeringValue)
        /\ m_SteeringDirection = SetSteeringDirection(PwmPercent(steeringPwm))

\* A manual cycle has sent 0 to the steering controller for a stick in the
\* dead zone while the stored value and direction are still those of the
\* turn commanded before.
C30_Witness ==
    /\ lastOp = "ManualSteering"
    /\ steeringPwm = SetSpeed(OFF)
    /\ m_CurrentSteeringValue > OFF
    /\ m_SteeringDirection = "RIGHT"


\* ------------------------------------------------------------------------
\* Properties of the overflowed log (checked under SpecOverflow)
\* ------------------------------------------------------------------------
\* C31 (as stated): once m_bDataLogOverflowed is true it stays true across
\* every later append, WriteLogToEeprom and restore of a record written
\* with the flag true, and ClearDataLog(RAM_LOG) ends the condition: after
\* the clear the flag is false and the cursor is 0.
C31_OverflowedUntilClear ==
    [][ManualCycleStep =>
          /\ (/\ m_bDataLogOverflowed
              /\ ~CommandStep("c")
              /\ CommandStep("r") => ((writtenLog # << >>) /\ writtenLog[3]))
             => m_bDataLogOverflowed'
          /\ CommandStep("c") => (~m_bDataLogOverflowed' /\ (m_DataLogIndex' = 0))]_vars

\* ClearDataLog(RAM_LOG) has just zeroed an overflowed log: the flag is
\* still true and the cursor is where the appends after the wrap took it.
C31_Witness ==
    /\ lastOp = "ClearDataLog"
    /\ m_DataLog = ClearedLog
    /\ m_bDataLogOverflowed
    /\ m_DataLogIndex = 1
    /\ appends = MAX_DATA_LOG_ENTRIES + 1


\* ------------------------------------------------------------------------
\* Properties of ClearDataLog (checked under SpecClear)
\* ------------------------------------------------------------------------
\* The entries an array holds: its fill entry and the entries stored since.
EntriesOf(log) == {log.fill} \cup {log.held[slot] : slot \in DOMAIN log.held}

\* C32: ClearDataLog(RAM_LOG) sets every entry of m_DataLog to zero and
\* changes no EEPROM byte; ClearDataLog(EEPROM_LOG) sets the bytes of the
\* stored log, and only those, to the erased value: it changes no entry of
\* m_DataLog and no byte of the stored car data (header, incarnation,
\* cursor, overflow flag).
C32_ClearTouchesOneLog ==
    [][/\ CommandStep("c") =>
             /\ \A e \in EntriesOf(m_DataLog') : e = ZeroEntry
             /\ ChangedBytes = 0
       /\ (lastOp' = "ClearStoredLog") =>
             /\ \A e \in EntriesOf(eepromLog') :
                   \A i \in 1 .. Len(EntryBytes(e)) : EntryBytes(e)[i] = ERASED_BYTE
             /\ \A slot \in (DOMAIN m_DataLog.held) \cup (DOMAIN m_DataLog'.held) :
                   EntryAt(m_DataLog', slot) = EntryAt(m_DataLog, slot)
             /\ m_DataLog'.fill = m_DataLog.fill
             /\ eepromCarData' = eepromCarData
             /\ <<m_DataLogIndex, m_bDataLogOverflowed>>' = <<m_DataLogIndex, m_bDataLogOverflowed>>]_vars

\* ClearDataLog(EEPROM_LOG) has just erased a stored log of one entry: the
\* stored car data still has its header and cursor, and the RAM log, with
\* a second entry appended since the write, still has both.
C32_Witness ==
    /\ lastOp = "ClearStoredLog"
    /\ eepromWrites > 0
    /\ eepromLog = ErasedLog
    /\ StoredHeader(eepromCarData) = NON_VOLATILE_CAR_DATA_HEADER
    /\ StoredIndex(eepromCarData) = 1
    /\ DOMAIN m_DataLog.held = {0, 1}
    /\ m_DataLogIndex = 2


\* ------------------------------------------------------------------------
\* Properties of the brake flags (checked under SpecBrake)
\* ------------------------------------------------------------------------
\* C33 (as stated): whatever ApplyBrake and ReleaseBrake calls and limit
\* switch changes have happened, m_bApplyingBrake and m_bReleasingBrake are
\* never both true, and m_bBrakeApplied is never true together with
\* m_bReleasingBrake.
C33_OneBrakeState ==
    /\ ~(m_bApplyingBrake /\ m_bReleasingBrake)
    /\ ~(m_bBrakeApplied /\ m_bReleasingBrake)

\* An Executing cycle is releasing the brake, the controller driven in the
\* release direction, while the flag of the apply that was cut short is
\* still set.
C33_Witness ==
    /\ m_bApplyingBrake
    /\ m_bReleasingBrake
    /\ ~m_bBrakeApplied
    /\ brakePwm = SetSpeed(RELEASE_BRAKE_PERCENTAGE)
    /\ lastOp = "ExecSensors"


\* ------------------------------------------------------------------------
\* Properties of the start-up (checked under SpecConstruct)
\* ------------------------------------------------------------------------
\* C34 (as stated): the hall sensor handlers are attached only once
\* CreateSingletonInstance has completed, so no handler runs while
\* m_pSoapBoxDerbyCar is null and the assertion of GetSingletonInstance
\* never fails in interrupt context.
C34_HandlersAttachedAfterCreate ==
    /\ (pc \in NullSingletonSites) => (pc \in DetachedSites)
    /\ lastOp # "HallPulseAssert"

\* A handler ran during the constructor: ProcessAssert was entered from
\* interrupt context with the singleton null and strobes the LEDs.
C34_Witness ==
    /\ pc = "EarlyAssert"
    /\ lastOp = "Strobe"
    /\ debugLeds
    /\ boots = 2


\* ------------------------------------------------------------------------
\* Properties of the wheel distances (checked under Spec)
\* ------------------------------------------------------------------------
\* C35 (as stated): whenever the main context is between two of its
\* statements, each wheel distance is its counter times the length per
\* magnet; so both distances are 0 when ResetHallSensorCounts has left
\* both counters 0.
C35_DistanceFollowsCount ==
    (sub = 0) =>
        /\ m_LeftWheelDistanceInches = m_LeftHallCount * WHEEL_LENGTH_PER_MAGNET_INCHES
        /\ m_RightWheelDistanceInches = m_RightHallCount * WHEEL_LENGTH_PER_MAGNET_INCHES

\* A manual cycle, which calls LogData, has run after the reset of
\* ExitAutonomous: both counters are 0 and the left distance is still the
\* one of the run.
C35_Witness ==
    /\ pc = "Run"
    /\ lastOp = "RunManual"
    /\ m_LeftHallCount = 0
    /\ m_RightHallCount = 0
    /\ m_LeftWheelDistanceInches >= AUTO_HALL_SENSOR_LAUNCH_COUNT * WHEEL_LENGTH_PER_MAGNET_INCHES


\* ------------------------------------------------------------------------
\* Properties of the cursor (checked under SpecEeprom)
\* ------------------------------------------------------------------------
\* C36 (as stated): after any sequence of LogData, ClearDataLog,
\* WriteLogToEeprom, RestoreLogFromEeprom and EraseEeprom, m_DataLogIndex
\* is in 0 .. MAX_DATA_LOG_ENTRIES - 1, so LogData writes inside m_DataLog.
C36_CursorInsideLog == m_DataLogIndex \in LogSlots

\* RestoreLogFromEeprom has read the cursor from erased EEPROM: the next
\* LogData addresses m_DataLog[-1].
C36_Witness ==
    /\ lastOp = "RestoreLogFromEeprom"
    /\ StoredHeader(eepromCarData) # NON_VOLATILE_CAR_DATA_HEADER
    /\ eepromCarData[DATA_LOG_INDEX_OFFSET + 1] = ERASED_BYTE
    /\ eepromCarData[DATA_LOG_INDEX_OFFSET + 2] = ERASED_BYTE
    /\ m_DataLogIndex = -1
    /\ pc = "Run"


\* ------------------------------------------------------------------------
\* Properties of the start of the autonomous routine (checked under Spec)
\* ------------------------------------------------------------------------
\* C37 (as stated): Run starts AutonomousRoutine only if the last
\* ReadControllerInput saw the master enable set; when the wait loop is
\* left because the autonomous switch was read off, the master enable
\* still false, AutonomousRoutine is not started in that call of Run.
C37_StartNeedsMasterEnable == (lastOp = "AutonomousRoutine") => m_bMasterEnable

\* The wait loop was left on a switch read off; the switch was back on at
\* the check that follows and AutonomousRoutine has been entered with the
\* master enable false.
C37_Witness ==
    /\ lastOp = "AutonomousRoutine"
    /\ pc = "EnterResetLeft"
    /\ ~m_bMasterEnable
    /\ lastSwitchRead
    /\ autonomousSwitchPin


\* ------------------------------------------------------------------------
\* Properties of the car data transmission (checked under SpecTelemetry)
\* ------------------------------------------------------------------------
\* C38 (as stated): a request for the car data never leads into
\* ProcessAssert: SendCarSerialData, past its interval check, packs
\* NUM_FIELDS_TO_TRANSMIT fields, so its ASSERT holds.
C38_RequestNeverAsserts ==
    (lastOp = "SendCarSerialData") =>
        /\ pc \notin AssertSites
        /\ Len(PackedSerialData) = NUM_FIELDS_TO_TRANSMIT

\* A request was served with the interval elapsed: the ASSERT of
\* SendCarSerialData failed and ProcessAssert has made its emergency stop.
C38_Witness ==
    /\ pc = "AssertStrobe"
    /\ lastOp = "EmergencyStop"
    /\ ULongLess(clock, SERIAL_DATA_TRANSMIT_INTERVAL_MS + 1)
    /\ ~ULongLess(clock, SERIAL_DATA_TRANSMIT_INTERVAL_MS)
    /\ ticks = 2


\* ------------------------------------------------------------------------
\* Properties of the recalibration (checked under SpecRecalibrate)
\* ------------------------------------------------------------------------
\* C39 (as stated): in every run of CalibrateSteeringPotentiometer, a
\* recalibration included, the left extreme recorded is the raw reading of
\* the potentiometer taken with the left limit switch asserted, and the
\* right extreme the raw reading taken with the right one asserted: never
\* the last good value of the jitter filter.
C39_ExtremesAreRawReadings ==
    [][/\ ((pc = "CalLeft") /\ (pc' = "CalRightStart")) =>
             /\ m_LeftSteeringLimitSwitchValue = 1
             /\ m_FrontAxlePotMaxLeftValue' = potPin
       /\ ((pc = "CalRight") /\ (pc' = "CalCenterStart")) =>
             /\ m_RightSteeringLimitSwitchValue = 1
             /\ m_FrontAxlePotMaxRightValue' = potPin]_vars

\* A recalibration has just recorded its left extreme with the
\* potentiometer reading 900: the value saved is the last good value of
\* the filter, which still works with the extremes of the calibration
\* before.
C39_Witness ==
    /\ pc = "CalRightStart"
    /\ lastOp = "Calibrating"
    /\ m_bCalibrationComplete
    /\ potPin = 900
    /\ m_FrontAxlePotMaxLeftValue = m_LastGoodPotValue
    /\ m_FrontAxlePotMaxLeftValue < potPin


\* ------------------------------------------------------------------------
\* Properties of the drift rule at the end of the counters' range
\* (checked under SpecLongRun)
\* ------------------------------------------------------------------------
\* C40 (as stated): the counters being 16-bit unsigned, the drift rule
\* follows the true difference of the counts it has read: a left turn is
\* commanded only when leftCount - rightCount >= D and a right turn only
\* when rightCount - leftCount >= D, also when rightCount + D or
\* leftCount + D is more than 65535.
C40_TurnsFollowTrueDifference ==
    /\ (lastOp = "TurnLeft") => (leftRead - rightRead >= AUTO_HALL_SENSOR_COUNT_MAX_DIFF)
    /\ (lastOp = "TurnRight") => (rightRead - leftRead >= AUTO_HALL_SENSOR_COUNT_MAX_DIFF)

\* A left turn has been commanded with the right count so far ahead that
\* rightCount + D does not fit in 16 bits.
C40_Witness ==
    /\ lastOp = "TurnLeft"
    /\ rightRead + AUTO_HALL_SENSOR_COUNT_MAX_DIFF >= UIntMod
    /\ leftRead < rightRead
    /\ m_CurrentSteeringValue = AUTO_TURN_LEFT_SPEED


=============================================================================
